---- MODULE Spec2Model ----
(***************************************************************************)
(* Academic lifecycle and authorization core of the school management      *)
(* backend: session registry (lock), the StudentEnrollment state machine   *)
(* (promote / bulk-promote / retain / transfer) and the result write       *)
(* endpoints, as implemented in core_services and result_management.       *)
(*                                                                         *)
(* The database is the state.  Every request handler is one action, with   *)
(* the request body drawn from small sets; `resp` is the request and the   *)
(* response of the last handler that ran.                                  *)
(***************************************************************************)
EXTENDS Integers, Sequences, FiniteSets, TLC

VARIABLES
  sessions,     \* Session rows:    id -> [name, is_active, is_locked]
  enrollments,  \* StudentEnrollment rows: id -> row
  students,     \* Student rows (denormalized current placement, is_active)
  results,      \* result rows: [kind, student, subject, session, grade]
  nextId,       \* next fresh StudentEnrollment primary key
  nops,         \* number of requests served so far
  reqs,         \* promote requests in flight (interleaved execution)
  resp,         \* the last request served and its response
  assignments,  \* TeacherAssignment rows
  class_teachers, \* ClassTeacher rows
  fees,         \* StudentFee rows: [student, session, status]
  cache,        \* the Django cache: key -> value, for the keys it holds
  call,         \* the last permission or marksheet call: arguments and result
  now           \* time.time(), in minutes

\* The tables and bookkeeping of the session and enrollment endpoints.
coreVars == <<sessions, enrollments, students, results, nextId, nops, reqs, resp>>

\* What the authorization and marksheet functions read and write.
authVars == <<assignments, class_teachers, fees, cache, call, now>>

vars == <<sessions, enrollments, students, results, nextId, nops, reqs, resp,
          assignments, class_teachers, fees, cache, call, now>>

-----------------------------------------------------------------------------
(* Bounds of the model. *)

\* StudentEnrollment rows ever created (primary keys 1..MaxEnrollments).
MaxEnrollments == 3
\* Items in one bulk-promote request.
MaxBulk == 2
\* Requests served in one behaviour.
MaxOps == 2
\* The largest roster ranked.
MaxRoster == 3
\* The most result rows of one kind a student has.
MaxRows == 2
\* The largest percentage graded, in hundredths of a percent.
MaxPercent == 10000
\* The clock stops here; times are minutes.
MaxClock == 10

\* The failed logins recorded for one key since its last successful login.
MaxFailures == 6

-----------------------------------------------------------------------------
(* The objects requests can name. *)

None == "none"
\* A null StudentEnrollment foreign key (promoted_to is null=True).
NoId == 0

SessionIds == {"s1", "s2", "s3", "s4"}
SessionNames == {"2023", "2024"}
Students == {"st1", "st2"}
Classes == {"c1", "c2"}
Sections == {"a", "b"}
Rolls == {"1", "2"}
Remarks == {"", "moved"}

\* StudentEnrollment.STATUS_CHOICES
STATUS_CHOICES == {"active", "promoted", "retained", "transferred", "graduated", "dropped"}

\* The date timezone.now().date() returns; promotion_date is null before.
Today == "today"

-----------------------------------------------------------------------------
(* Rows. *)

\* Session.objects.get(id=...) finds a row.
SessionExists(S, s) == s \in DOMAIN S

\* StudentEnrollment.objects.get(id=...) finds a row.
EnrollmentExists(E, e) == e \in DOMAIN E

\* The uniqueness of (student, session) kept among active rows only.
UniqueViolation_active(E, student, session, except) ==
  \E i \in DOMAIN E : /\ i # except /\ E[i].student = student /\ E[i].session = session
                       /\ E[i].status = "active"

\* Meta.unique_together = ['student', 'session']: a row other than `except`
\* (NoId for an insert) already holds the pair.
UniqueViolation(E, student, session, except) ==
  \E i \in DOMAIN E : i # except /\ E[i].student = student /\ E[i].session = session

\* A fresh StudentEnrollment row as objects.create(...) builds it.
NewRow(student, session, class_ref, section, roll_no, status) ==
  [student |-> student, session |-> session, class_ref |-> class_ref,
   section |-> section, roll_no |-> roll_no, status |-> status,
   promoted_to |-> NoId, promotion_date |-> None, remarks |-> ""]

\* The database part a lifecycle operation reads and writes.
Db(E, S) == [enrollments |-> E, students |-> S]

\* Outcome of a model method: error kind ("ok" when none), the database it
\* leaves, and the enrollment it returns.
Outcome(err, E, S, new) == [err |-> err, enrollments |-> E, students |-> S, new |-> new]

-----------------------------------------------------------------------------
(* StudentEnrollment model methods (core_services/models.py).  `self` is   *)
(* the in-memory instance the method runs on: the row as it was read, which *)
(* can differ from the stored row when another instance of the same row    *)
(* was saved in between.  Model.save() writes every column of `self`.      *)

\* objects.create(student=self.student, session=new_session, ...): the insert
\* of promote_to_next_class.
promote_insert(E, self, new_class, new_section, new_session, new_roll_no, newid) ==
  E @@ (newid :> NewRow(self.student, new_session, new_class, new_section,
                        new_roll_no, "active"))

\* promote_save_self that records the promoted row itself as its successor.
promote_save_self_own_id(E, id, self, newid) ==
  [E EXCEPT ![id] = [self EXCEPT !.status = "promoted",
                                 !.promoted_to = id,
                                 !.promotion_date = Today]]

\* self.status = 'promoted'; self.promoted_to = new_enrollment;
\* self.promotion_date = today; self.save()
promote_save_self(E, id, self, newid) ==
  [E EXCEPT ![id] = [self EXCEPT !.status = "promoted",
                                 !.promoted_to = newid,
                                 !.promotion_date = Today]]

\* promote_save_student that leaves the student's roll number as it was read.
promote_save_student_stale_roll(S, self, stu, new_class, new_section, new_session, new_roll_no) ==
  [S EXCEPT ![self.student] = [stu EXCEPT !.class_ref = new_class,
                                          !.section = new_section,
                                          !.session = new_session]]

\* self.student.class_ref = new_class; ...; self.student.save(): `stu` is the
\* Student instance self.student, read when the method first touched it.
promote_save_student(S, self, stu, new_class, new_section, new_session, new_roll_no) ==
  [S EXCEPT ![self.student] = [stu EXCEPT !.class_ref = new_class,
                                          !.section = new_section,
                                          !.session = new_session,
                                          !.roll_no = new_roll_no]]

\* promote_to_next_class: the statements that write, in order; the database
\* after the first k of them (1: objects.create, 2: self.save(),
\* 3: self.student.save()).
PromoteWrites(E, S, id, self, stu, new_class, new_section, new_session, new_roll_no, newid, k) ==
  LET E1 == IF k >= 1
            THEN promote_insert(E, self, new_class, new_section, new_session,
                                new_roll_no, newid)
            ELSE E
      E2 == IF k >= 2 THEN promote_save_self(E1, id, self, newid) ELSE E1
      S3 == IF k >= 3
            THEN promote_save_student(S, self, stu, new_class, new_section,
                                      new_session, new_roll_no)
            ELSE S
  IN Db(E2, S3)

\* promote_to_next_class(new_class, new_section, new_session, new_roll_no)
promote_to_next_class(E, S, id, self, new_class, new_section, new_session, new_roll_no, newid) ==
  IF self.status # "active"
  THEN Outcome("invalid_state", E, S, NoId)
  ELSE IF UniqueViolation(E, self.student, new_session, NoId)
  THEN Outcome("conflict", E, S, NoId)
  ELSE LET d == PromoteWrites(E, S, id, self, S[self.student], new_class, new_section,
                              new_session, new_roll_no, newid, 3)
       IN Outcome("ok", d.enrollments, d.students, newid)

\* RetainWrites that gives the new row the requested roll number even when
\* it is empty.
RetainWrites_blank_roll(E, S, id, self, new_session, new_roll_no, newid, k) ==
  LET E1 == IF k >= 1
            THEN E @@ (newid :> NewRow(self.student, new_session, self.class_ref,
                                       self.section, new_roll_no, "active"))
            ELSE E
      E2 == IF k >= 2
            THEN [E1 EXCEPT ![id] = [self EXCEPT !.status = "retained"]]
            ELSE E1
  IN Db(E2, S)

\* retain_in_same_class: the database after the first k writes
\* (1: objects.create, 2: self.save()).
RetainWrites(E, S, id, self, new_session, new_roll_no, newid, k) ==
  LET roll == IF new_roll_no \in {None, ""} THEN self.roll_no ELSE new_roll_no
      E1 == IF k >= 1
            THEN E @@ (newid :> NewRow(self.student, new_session, self.class_ref,
                                       self.section, roll, "active"))
            ELSE E
      E2 == IF k >= 2
            THEN [E1 EXCEPT ![id] = [self EXCEPT !.status = "retained"]]
            ELSE E1
  IN Db(E2, S)

\* retain_in_same_class(new_session, new_roll_no=None)
retain_in_same_class(E, S, id, self, new_session, new_roll_no, newid) ==
  IF UniqueViolation(E, self.student, new_session, NoId)
  THEN Outcome("conflict", E, S, NoId)
  ELSE LET d == RetainWrites(E, S, id, self, new_session, new_roll_no, newid, 2)
       IN Outcome("ok", d.enrollments, d.students, newid)

\* transfer_out(remarks=''): the database after the first k writes
\* (1: self.save(), 2: self.student.save()).
TransferWrites(E, S, id, self, stu, remarks, k) ==
  LET E1 == IF k >= 1
            THEN [E EXCEPT ![id] = [self EXCEPT !.status = "transferred",
                                                !.remarks = remarks]]
            ELSE E
      S2 == IF k >= 2
            THEN [S EXCEPT ![self.student] = [stu EXCEPT !.is_active = FALSE]]
            ELSE S
  IN Db(E1, S2)

\* transfer_out(remarks='')
transfer_out(E, S, id, self, remarks) ==
  LET d == TransferWrites(E, S, id, self, S[self.student], remarks, 2)
  IN Outcome("ok", d.enrollments, d.students, id)

\* promote_to_next_class cut short: an exception (a lost database connection,
\* a killed worker) is raised right after the k-th write.  The status check
\* and the insert's uniqueness check come before any write.
promote_to_next_class_interrupted(E, S, id, self, new_class, new_section, new_session, new_roll_no, newid, k) ==
  IF self.status # "active"
  THEN Outcome("invalid_state", E, S, NoId)
  ELSE IF UniqueViolation(E, self.student, new_session, NoId)
  THEN Outcome("conflict", E, S, NoId)
  ELSE LET d == PromoteWrites(E, S, id, self, S[self.student], new_class, new_section,
                              new_session, new_roll_no, newid, k)
       IN Outcome("server_error", d.enrollments, d.students, NoId)

\* retain_in_same_class cut short right after the k-th write.
retain_in_same_class_interrupted(E, S, id, self, new_session, new_roll_no, newid, k) ==
  IF UniqueViolation(E, self.student, new_session, NoId)
  THEN Outcome("conflict", E, S, NoId)
  ELSE LET d == RetainWrites(E, S, id, self, new_session, new_roll_no, newid, k)
       IN Outcome("server_error", d.enrollments, d.students, NoId)

\* lock_session that sets is_locked alone.
lock_session_keeps_active(row) == [row EXCEPT !.is_locked = TRUE]

\* Session.lock_session()
lock_session(row) == [row EXCEPT !.is_locked = TRUE, !.is_active = FALSE]

-----------------------------------------------------------------------------
(* Serializers (core_services/serializers.py).  validate() returns the     *)
(* error kind of the ValidationError it raises, "ok" when it raises none.  *)

\* StudentPromotionSerializer.validate
StudentPromotionSerializer_validate(E, Sess, data) ==
  IF ~EnrollmentExists(E, data.enrollment_id) THEN "not_found"
  ELSE IF E[data.enrollment_id].status # "active" THEN "invalid_state"
  ELSE IF ~SessionExists(Sess, data.new_session_id) THEN "not_found"
  ELSE IF Sess[data.new_session_id].is_locked THEN "session_locked"
  ELSE "ok"

\* StudentPromotionSerializer.create: `self` is validated_data['enrollment'].
StudentPromotionSerializer_create(E, S, self, data, newid) ==
  promote_to_next_class(E, S, data.enrollment_id, self, data.new_class_id,
                        data.new_section_id, data.new_session_id, data.new_roll_no, newid)

\* StudentRetentionSerializer.validate
StudentRetentionSerializer_validate(E, Sess, data) ==
  IF ~EnrollmentExists(E, data.enrollment_id) THEN "not_found"
  ELSE IF ~SessionExists(Sess, data.new_session_id) THEN "not_found"
  ELSE "ok"

\* StudentRetentionSerializer.create
StudentRetentionSerializer_create(E, S, self, data, newid) ==
  retain_in_same_class(E, S, data.enrollment_id, self, data.new_session_id,
                       data.new_roll_no, newid)

\* StudentTransferSerializer.validate
StudentTransferSerializer_validate(E, data) ==
  IF ~EnrollmentExists(E, data.enrollment_id) THEN "not_found" ELSE "ok"

\* StudentTransferSerializer.create
StudentTransferSerializer_create(E, S, self, data) ==
  transfer_out(E, S, data.enrollment_id, self, data.remarks)

\* SessionLockSerializer.validate_session_id
SessionLockSerializer_validate(Sess, s) ==
  IF ~SessionExists(Sess, s) THEN "not_found"
  ELSE IF Sess[s].is_locked THEN "already_locked"
  ELSE "ok"

\* SessionLockSerializer.create
SessionLockSerializer_create(Sess, s) == [Sess EXCEPT ![s] = lock_session(@)]

\* One entry of the record of what a lifecycle request did: the enrollment
\* the model method ran on, the status its stored row had at that moment,
\* the method's outcome o, and whether the method changed the database
\* (E, S) it started from.
LogEntry(E, S, id, o) ==
  [e |-> id, stored |-> E[id].status, err |-> o.err,
   wrote |-> (o.enrollments # E \/ o.students # S)]

\* The body of BulkPromotionSerializer.create: promote_to_next_class on each
\* item from position i on.  selfs[i] is the instance validate() read for
\* item i, before any item was applied.  The first exception ends the loop.
RECURSIVE BulkLoop(_, _, _, _, _, _, _)
BulkLoop(E, S, selfs, items, i, newid, log) ==
  IF i > Len(items)
  THEN [err |-> "ok", enrollments |-> E, students |-> S, log |-> log]
  ELSE LET o == promote_to_next_class(E, S, items[i].enrollment_id, selfs[i],
                                      items[i].new_class_id, items[i].new_section_id,
                                      items[i].new_session_id, items[i].new_roll_no, newid)
           l == Append(log, LogEntry(E, S, items[i].enrollment_id, o))
       IN IF o.err # "ok"
          THEN [err |-> o.err, enrollments |-> o.enrollments, students |-> o.students, log |-> l]
          ELSE BulkLoop(o.enrollments, o.students, selfs, items, i + 1, newid + 1, l)

\* transaction_atomic without the decorator: every statement commits alone.
transaction_autocommit(E, S, o) == o

\* @transaction.atomic: an exception leaving the block rolls the database
\* back to what it was on entry.
transaction_atomic(E, S, o) ==
  IF o.err = "ok" THEN o ELSE [o EXCEPT !.enrollments = E, !.students = S]

\* BulkPromotionSerializer.create
BulkPromotionSerializer_create(E, S, selfs, items, newid) ==
  transaction_atomic(E, S, BulkLoop(E, S, selfs, items, 1, newid, <<>>))

\* The nested StudentPromotionSerializer(many=True): every item is validated
\* before create() runs; the first error kind found, "ok" when none.
RECURSIVE BulkValidate(_, _, _, _)
BulkValidate(E, Sess, items, i) ==
  IF i > Len(items) THEN "ok"
  ELSE LET v == StudentPromotionSerializer_validate(E, Sess, items[i])
       IN IF v # "ok" THEN v ELSE BulkValidate(E, Sess, items, i + 1)

\* StudentEnrollmentCreateSerializer.validate: data['session_id'] raises
\* KeyError when a partial update leaves it out, and Session.objects.get
\* raises DoesNotExist for an unknown id; neither is caught.
StudentEnrollmentCreateSerializer_validate(Sess, data) ==
  IF data.session_id = None THEN "server_error"
  ELSE IF ~SessionExists(Sess, data.session_id) THEN "server_error"
  ELSE IF Sess[data.session_id].is_locked THEN "session_locked"
  ELSE "ok"

\* StudentEnrollmentCreateSerializer.create: status defaults to 'active'.
StudentEnrollmentCreateSerializer_create(E, data, newid) ==
  IF UniqueViolation(E, data.student_id, data.session_id, NoId)
  THEN [err |-> "conflict", enrollments |-> E]
  ELSE [err |-> "ok",
        enrollments |-> E @@ (newid :> NewRow(data.student_id, data.session_id,
                                data.class_id, data.section_id, data.roll_no,
                                IF data.status = None THEN "active" ELSE data.status))]

\* A request field, or the instance's value when the request leaves it out.
Given(value, current) == IF value = None THEN current ELSE value

\* ModelSerializer.update (inherited): setattr(instance, attr, value) for each
\* validated field, then instance.save().  The model attributes are student_id,
\* session_id, class_ref_id and section_id: the request's class_id names no
\* model attribute, so the row's class is not written.
StudentEnrollmentCreateSerializer_update(E, id, data) ==
  LET row == [E[id] EXCEPT !.student = Given(data.student_id, @),
                           !.session = Given(data.session_id, @),
                           !.section = Given(data.section_id, @),
                           !.roll_no = Given(data.roll_no, @),
                           !.status = Given(data.status, @)]
  IN IF UniqueViolation(E, row.student, row.session, id)
     THEN [err |-> "conflict", enrollments |-> E]
     ELSE [err |-> "ok", enrollments |-> [E EXCEPT ![id] = row]]

-----------------------------------------------------------------------------
(* Views (core_services/views.py).  A view returns what the request leaves: *)
(* the error kind, the database, the ids it returns and the record of the  *)
(* model methods it ran.  Only bulk_promote runs inside a transaction.      *)

View(err, E, S, new, log) ==
  [err |-> err, enrollments |-> E, students |-> S, new |-> new, log |-> log]

\* StudentEnrollmentViewSet.promote
promote(E, S, Sess, data, newid) ==
  LET v == StudentPromotionSerializer_validate(E, Sess, data)
  IN IF v # "ok" THEN View(v, E, S, <<>>, <<>>)
     ELSE LET o == StudentPromotionSerializer_create(E, S, E[data.enrollment_id], data, newid)
          IN View(o.err, o.enrollments, o.students,
                  IF o.err = "ok" THEN <<o.new>> ELSE <<>>,
                  <<LogEntry(E, S, data.enrollment_id, o)>>)

\* StudentEnrollmentViewSet.bulk_promote
bulk_promote(E, S, Sess, items, newid) ==
  LET v == BulkValidate(E, Sess, items, 1)
  IN IF v # "ok" THEN View(v, E, S, <<>>, <<>>)
     ELSE LET selfs == [i \in 1..Len(items) |-> E[items[i].enrollment_id]]
              o == BulkPromotionSerializer_create(E, S, selfs, items, newid)
          IN View(o.err, o.enrollments, o.students,
                  IF o.err = "ok" THEN [i \in 1..Len(items) |-> newid + i - 1] ELSE <<>>,
                  o.log)

\* StudentEnrollmentViewSet.retain
retain(E, S, Sess, data, newid) ==
  LET v == StudentRetentionSerializer_validate(E, Sess, data)
  IN IF v # "ok" THEN View(v, E, S, <<>>, <<>>)
     ELSE LET o == StudentRetentionSerializer_create(E, S, E[data.enrollment_id], data, newid)
          IN View(o.err, o.enrollments, o.students,
                  IF o.err = "ok" THEN <<o.new>> ELSE <<>>,
                  <<LogEntry(E, S, data.enrollment_id, o)>>)

\* StudentEnrollmentViewSet.transfer
transfer(E, S, data) ==
  LET v == StudentTransferSerializer_validate(E, data)
  IN IF v # "ok" THEN View(v, E, S, <<>>, <<>>)
     ELSE LET o == StudentTransferSerializer_create(E, S, E[data.enrollment_id], data)
          IN View(o.err, o.enrollments, o.students, <<o.new>>,
                  <<LogEntry(E, S, data.enrollment_id, o)>>)

\* StudentEnrollmentViewSet.promote when promote_to_next_class is cut short:
\* the view opens no transaction, so each write that completed has been
\* committed on its own and stays.
promote_interrupted(E, S, Sess, data, newid, k) ==
  LET v == StudentPromotionSerializer_validate(E, Sess, data)
  IN IF v # "ok" THEN View(v, E, S, <<>>, <<>>)
     ELSE LET self == E[data.enrollment_id]
              o == promote_to_next_class_interrupted(E, S, data.enrollment_id, self,
                     data.new_class_id, data.new_section_id, data.new_session_id,
                     data.new_roll_no, newid, k)
          IN View(o.err, o.enrollments, o.students, <<>>,
                  <<LogEntry(E, S, data.enrollment_id, o)>>)

\* StudentEnrollmentViewSet.retain when retain_in_same_class is cut short.
retain_interrupted(E, S, Sess, data, newid, k) ==
  LET v == StudentRetentionSerializer_validate(E, Sess, data)
  IN IF v # "ok" THEN View(v, E, S, <<>>, <<>>)
     ELSE LET self == E[data.enrollment_id]
              o == retain_in_same_class_interrupted(E, S, data.enrollment_id, self,
                     data.new_session_id, data.new_roll_no, newid, k)
          IN View(o.err, o.enrollments, o.students, <<>>,
                  <<LogEntry(E, S, data.enrollment_id, o)>>)

\* StudentEnrollmentViewSet.create
enrollment_create(E, S, Sess, data, newid) ==
  LET v == StudentEnrollmentCreateSerializer_validate(Sess, data)
  IN IF v # "ok" THEN View(v, E, S, <<>>, <<>>)
     ELSE LET o == StudentEnrollmentCreateSerializer_create(E, data, newid)
          IN View(o.err, o.enrollments, S, IF o.err = "ok" THEN <<newid>> ELSE <<>>, <<>>)

\* StudentEnrollmentViewSet.update / partial_update: get_object() answers 404
\* for an unknown id.
enrollment_update(E, S, Sess, id, data) ==
  IF ~EnrollmentExists(E, id) THEN View("not_found", E, S, <<>>, <<>>)
  ELSE LET v == StudentEnrollmentCreateSerializer_validate(Sess, data)
       IN IF v # "ok" THEN View(v, E, S, <<>>, <<>>)
          ELSE LET o == StudentEnrollmentCreateSerializer_update(E, id, data)
               IN View(o.err, o.enrollments, S, IF o.err = "ok" THEN <<id>> ELSE <<>>, <<>>)

\* ModelViewSet.destroy (inherited): get_object() answers 404 for an unknown
\* id; the row is deleted and promoted_to (on_delete=SET_NULL) of the rows
\* that point to it is cleared.
enrollment_destroy(E, S, id) ==
  IF ~EnrollmentExists(E, id) THEN View("not_found", E, S, <<>>, <<>>)
  ELSE View("ok",
            [k \in DOMAIN E \ {id} |->
               IF E[k].promoted_to = id THEN [E[k] EXCEPT !.promoted_to = NoId] ELSE E[k]],
            S, <<>>, <<>>)

\* IsAdminUser.has_permission with every authenticated staff role let in.
IsAdminUser_staff(user) ==
  user.is_authenticated /\ user.role \in {"admin", "teacher"}

\* IsAdminUser.has_permission (core_services/views.py)
IsAdminUser(user) ==
  user.is_authenticated /\ user.role = "admin"

\* StudentEnrollmentViewSet.permission_classes = [IsAdminUser]: APIView.initial
\* checks the permission before the handler runs; a refused request answers
\* 403 (401 without credentials) and the handler's result v never comes
\* about.
Permitted(user, v, E, S) ==
  IF IsAdminUser(user) THEN v ELSE View("forbidden", E, S, <<>>, <<>>)

-----------------------------------------------------------------------------
(* Result write endpoints (result_management/views.py).  A result row is    *)
(* identified by its kind, student, subject and session.                    *)

\* objects.update_or_create(student_id=..., <subject>_id=..., session_id=...,
\* defaults=...): the row with these three ids is updated when there is one
\* and created when there is none.  The foreign key to sessions makes the
\* insert fail for an unknown session id.
update_or_create(R, Sess, kind, data) ==
  IF ~SessionExists(Sess, data.session_id)
  THEN [err |-> "server_error", results |-> R]
  ELSE LET same(r) == /\ r.kind = kind /\ r.student = data.student_id
                      /\ r.subject = data.subject_id /\ r.session = data.session_id
           row == [kind |-> kind, student |-> data.student_id,
                   subject |-> data.subject_id, session |-> data.session_id,
                   grade |-> data.grade]
       IN [err |-> "ok", results |-> {r \in R : ~same(r)} \cup {row}]

\* StudentCocurricularResultViewSet.upsert: the view states no permission
\* class and reads no session row.
cocurricular_upsert(R, Sess, data) == update_or_create(R, Sess, "cocurricular", data)

\* StudentOptionalResultViewSet.upsert
optional_upsert(R, Sess, data) == update_or_create(R, Sess, "optional", data)

-----------------------------------------------------------------------------
(* Authorization functions (core_services/permissions.py).  A user is its   *)
(* role and its teacher profile (None when it has none).  Functions that    *)
(* read through the cache return their result together with the cache they  *)
(* leave.                                                                    *)

Teachers == {"t1", "t2"}
Subjects == {"sub1"}

User(name, role, teacher_profile, is_authenticated) ==
  [name |-> name, role |-> role, teacher_profile |-> teacher_profile,
   is_authenticated |-> is_authenticated]

AdminUser == User("admin", "admin", None, TRUE)
TeacherUser(t) == User(t, "teacher", t, TRUE)
\* A teacher-role account with no Teacher row linked to it.
OrphanTeacherUser == User("orphan", "teacher", None, TRUE)
StudentRoleUser == User("pupil", "student", None, TRUE)
\* request.user of an unauthenticated request.
AnonymousUser == User("anonymous", None, None, FALSE)

\* TeacherAssignment.objects.filter(teacher, class_ref, section, subject,
\* session, is_active=True).exists()
TeacherAssignmentExists(A, teacher, class_ref, section, subject, session) ==
  \E a \in A : /\ a.teacher = teacher /\ a.class_ref = class_ref
               /\ a.section = section /\ a.subject = subject
               /\ a.session = session /\ a.is_active

\* cache.get(key) is None: the cache holds no entry for the key (none was
\* set, or its timeout has passed).
cache_miss(C, key) == key \notin DOMAIN C

\* cache.set(key, value, timeout)
cache_set(C, key, value) == [k \in DOMAIN C \cup {key} |-> IF k = key THEN value ELSE C[k]]

\* check_teacher_subject_assignment(teacher, class_ref, section, subject, session)
check_teacher_subject_assignment(C, A, teacher, class_ref, section, subject, session) ==
  LET cache_key == <<"teacher_assignment", teacher, class_ref, section, subject, session>>
  IN IF cache_miss(C, cache_key)
     THEN LET result == TeacherAssignmentExists(A, teacher, class_ref, section, subject, session)
          IN [result |-> result, cache |-> cache_set(C, cache_key, result)]
     ELSE [result |-> C[cache_key], cache |-> C]

\* What a permission function returns: (is_allowed, error_message), or an
\* exception it raises, and the cache it leaves.
Decision(allowed, reason, raised, C) ==
  [allowed |-> allowed, reason |-> reason, raised |-> raised, cache |-> C]

\* validate_marks_entry_permission where the lock check comes before the
\* role dispatch, so that it binds admins too.
validate_marks_entry_permission_lock_first(C, A, Sess, S, user, student, subject, session) ==
  IF Sess[session].is_locked
  THEN Decision(FALSE, "This session is locked and cannot be modified.", FALSE, C)
  ELSE IF user.role = "admin" THEN Decision(TRUE, None, FALSE, C)
  ELSE Decision(FALSE, "Only teachers and admins can enter marks.", FALSE, C)

\* validate_marks_entry_permission(user, student, subject, session).
\* student.class_ref.id raises AttributeError for a student with no class.
validate_marks_entry_permission(C, A, Sess, S, user, student, subject, session) ==
  IF user.role = "admin" THEN Decision(TRUE, None, FALSE, C)
  ELSE IF user.role # "teacher"
  THEN Decision(FALSE, "Only teachers and admins can enter marks.", FALSE, C)
  ELSE IF user.teacher_profile = None
  THEN Decision(FALSE, "Teacher profile not found.", FALSE, C)
  ELSE IF Sess[session].is_locked
  THEN Decision(FALSE, "This session is locked and cannot be modified.", FALSE, C)
  ELSE IF S[student].class_ref = None \/ S[student].section = None
  THEN Decision(FALSE, None, TRUE, C)
  ELSE LET r == check_teacher_subject_assignment(C, A, user.teacher_profile,
                  S[student].class_ref, S[student].section, subject, session)
       IN IF ~r.result
          THEN Decision(FALSE, "You are not assigned to teach this subject for this class.",
                        FALSE, r.cache)
          ELSE Decision(TRUE, None, FALSE, r.cache)

\* ClassTeacher.objects.filter(teacher, class_ref, section, session,
\* is_active=True).exists()
ClassTeacherExists(CT, teacher, class_ref, section, session) ==
  \E ct \in CT : /\ ct.teacher = teacher /\ ct.class_ref = class_ref
                 /\ ct.section = section /\ ct.session = session /\ ct.is_active

\* check_class_teacher(teacher, class_ref, section, session)
check_class_teacher(C, CT, teacher, class_ref, section, session) ==
  LET cache_key == <<"class_teacher", teacher, class_ref, section, session>>
  IN IF cache_miss(C, cache_key)
     THEN LET result == ClassTeacherExists(CT, teacher, class_ref, section, session)
          IN [result |-> result, cache |-> cache_set(C, cache_key, result)]
     ELSE [result |-> C[cache_key], cache |-> C]

\* StudentFee statuses that count as pending.
PendingStatuses == {"pending", "partial", "overdue"}

\* check_student_fees_cleared(student, session)
check_student_fees_cleared(F, student, session) ==
  ~\E f \in F : f.student = student /\ f.session = session /\ f.status \in PendingStatuses

\* Student.objects.filter(class_ref, section, session, is_active=True)
ActiveStudentsOf(S, class_ref, section, session) ==
  {st \in DOMAIN S : /\ S[st].class_ref = class_ref /\ S[st].section = section
                     /\ S[st].session = session /\ S[st].is_active}

\* students_with_pending: the students of the queryset whose fees are not
\* cleared (each entry is the student's id, student_id and name).
students_with_pending(F, S, class_ref, section, session) ==
  {st \in ActiveStudentsOf(S, class_ref, section, session) :
     ~check_student_fees_cleared(F, st, session)}

\* (is_allowed, error_message, students_with_pending), and the cache left.
SheetDecision(allowed, reason, pending, C) ==
  [allowed |-> allowed, reason |-> reason, pending |-> pending, cache |-> C]

\* validate_marksheet_generation_permission(user, class_ref, section, session,
\* check_fees=True)
validate_marksheet_generation_permission(C, CT, F, S, user, class_ref, section, session, check_fees) ==
  LET pending == students_with_pending(F, S, class_ref, section, session)
  IN IF user.role = "admin"
     THEN IF check_fees /\ pending # {}
          THEN SheetDecision(FALSE, "Some students have pending fees.", pending, C)
          ELSE SheetDecision(TRUE, None, {}, C)
     ELSE IF user.role # "teacher"
     THEN SheetDecision(FALSE, "Only teachers and admins can generate marksheets.", {}, C)
     ELSE IF user.teacher_profile = None
     THEN SheetDecision(FALSE, "Teacher profile not found.", {}, C)
     ELSE LET r == check_class_teacher(C, CT, user.teacher_profile, class_ref, section, session)
          IN IF ~r.result
             THEN SheetDecision(FALSE,
                    "Only class teacher can generate marksheets for this class.", {}, r.cache)
             ELSE IF check_fees /\ pending # {}
             THEN SheetDecision(FALSE, "Some students have pending fees.", pending, r.cache)
             ELSE SheetDecision(TRUE, None, {}, r.cache)

\* permissions.IsAuthenticated
IsAuthenticated(user) == user.is_authenticated

\* round(percentage, 2) of the percentage num / den, in hundredths: the
\* nearest hundredth, a half going to the even one.
round2(num, den) ==
  LET q == (num * 100) \div den
      r == (num * 100) % den
  IN IF 2 * r > den \/ (2 * r = den /\ q % 2 = 1) THEN q + 1 ELSE q

\* percentage = (grand_total / grand_full * 100) if grand_full > 0 else 0,
\* as the fraction num / den.
percentage(grand_total, grand_full) ==
  IF grand_full > 0 THEN [num |-> grand_total * 100, den |-> grand_full]
  ELSE [num |-> 0, den |-> 1]

\* percentage >= bound
AtLeast(pct, bound) == pct.num >= bound * pct.den

\* The overall grade with the top band opening above 90 instead of at 90.
overall_grade_above(pct) ==
  IF pct.num > 90 * pct.den THEN "AA"
  ELSE IF AtLeast(pct, 75) THEN "A+"
  ELSE IF AtLeast(pct, 60) THEN "A"
  ELSE IF AtLeast(pct, 45) THEN "B+"
  ELSE IF AtLeast(pct, 34) THEN "B"
  ELSE IF AtLeast(pct, 25) THEN "C"
  ELSE "D"

\* The overall grade of MarksheetView.student_marksheet.
overall_grade(pct) ==
  IF AtLeast(pct, 90) THEN "AA"
  ELSE IF AtLeast(pct, 75) THEN "A+"
  ELSE IF AtLeast(pct, 60) THEN "A"
  ELSE IF AtLeast(pct, 45) THEN "B+"
  ELSE IF AtLeast(pct, 34) THEN "B"
  ELSE IF AtLeast(pct, 25) THEN "C"
  ELSE "D"

RECURSIVE SumSeq(_)
\* sum(... for r in rows)
SumSeq(xs) == IF xs = <<>> THEN 0 ELSE Head(xs) + SumSeq(Tail(xs))

\* The summary with the optional results left out of the grand totals.
summary_core_only(core, optional) ==
  LET total_marks == SumSeq([i \in DOMAIN core |-> core[i].total_marks])
      total_full_marks == SumSeq([i \in DOMAIN core |-> core[i].full_marks])
      optional_total == SumSeq([i \in DOMAIN optional |-> optional[i].obtained_marks])
      optional_full == SumSeq([i \in DOMAIN optional |-> optional[i].full_marks])
      pct == percentage(total_marks, total_full_marks)
  IN [total_marks |-> total_marks, total_full_marks |-> total_full_marks,
      optional_total |-> optional_total, optional_full |-> optional_full,
      grand_total |-> total_marks, grand_full |-> total_full_marks,
      exact |-> pct, percentage |-> round2(pct.num, pct.den)]

\* The totals and the summary of both single-student marksheet views: core
\* is the student's StudentResult rows (total_marks, and full_marks for what
\* calculate_full_marks() returns), optional the StudentOptionalResult rows.
\* `exact` is the view's variable percentage, `percentage` the rounded value
\* of the response.
summary(core, optional) ==
  LET total_marks == SumSeq([i \in DOMAIN core |-> core[i].total_marks])
      total_full_marks == SumSeq([i \in DOMAIN core |-> core[i].full_marks])
      optional_total == SumSeq([i \in DOMAIN optional |-> optional[i].obtained_marks])
      optional_full == SumSeq([i \in DOMAIN optional |-> optional[i].full_marks])
      grand_total == total_marks + optional_total
      grand_full == total_full_marks + optional_full
      pct == percentage(grand_total, grand_full)
  IN [total_marks |-> total_marks, total_full_marks |-> total_full_marks,
      optional_total |-> optional_total, optional_full |-> optional_full,
      grand_total |-> grand_total, grand_full |-> grand_full,
      exact |-> pct, percentage |-> round2(pct.num, pct.den)]

\* What a marksheet view answers: a status, the marksheet rows it exposes and
\* the students reported with pending fees.
SheetResponse(status, data, pending) ==
  [status |-> status, data |-> data, pending |-> pending]

\* The position of a roll_no in the order of order_by('roll_no').
RollRank(roll_no) == CASE roll_no = "" -> 0 [] roll_no = "1" -> 1 [] roll_no = "2" -> 2

\* The orders in which a queryset .order_by('roll_no') can return the
\* students of a set: by roll_no, equal roll_nos in any order.
OrderByRollNo(S, set) ==
  {seq \in [1..Cardinality(set) -> set] :
     /\ \A i, j \in DOMAIN seq : i # j => seq[i] # seq[j]
     /\ \A i, j \in DOMAIN seq :
          i < j => RollRank(S[seq[i]].roll_no) <= RollRank(S[seq[j]].roll_no)}

\* One entry of marksheet_data: the student, the totals and the rounded
\* percentage (in hundredths).
MarksheetRow(student, marks) ==
  LET pct == percentage(marks.total, marks.full)
  IN [student |-> student, total_marks |-> marks.total, total_full_marks |-> marks.full,
      percentage |-> round2(pct.num, pct.den)]

\* The number of rows before index i that sorted(..., reverse=True) leaves
\* in front of row i: those with a greater key, and those with an equal key
\* that come earlier (the sort is stable, also when reversed).
Before(rows, i) ==
  Cardinality({j \in DOMAIN rows :
     \/ rows[j].percentage > rows[i].percentage
     \/ rows[j].percentage = rows[i].percentage /\ j < i})

\* The rows sorted ascending and then reversed: rows with equal keys come
\* out in reverse order.
sorted_then_reversed(rows) ==
  [k \in DOMAIN rows |->
     rows[CHOOSE i \in DOMAIN rows :
            Cardinality({j \in DOMAIN rows :
              \/ rows[j].percentage > rows[i].percentage
              \/ rows[j].percentage = rows[i].percentage /\ j > i}) = k - 1]]

\* sorted(marksheet_data, key=lambda x: x['percentage'], reverse=True)
sorted_reverse(rows) ==
  [k \in DOMAIN rows |-> rows[CHOOSE i \in DOMAIN rows : Before(rows, i) = k - 1]]

\* for i, item in enumerate(sorted_data): item['position'] = i + 1
with_positions(rows) ==
  [i \in DOMAIN rows |->
     [student |-> rows[i].student, total_marks |-> rows[i].total_marks,
      total_full_marks |-> rows[i].total_full_marks,
      percentage |-> rows[i].percentage, position |-> i]]

\* The body of both class marksheet views after the roster query: one row
\* per roster student, sorted by percentage, positions assigned. marks[i]
\* holds the totals of the result rows of the i-th roster student.
marksheet_data(roster, marks) ==
  with_positions(sorted_reverse([i \in DOMAIN roster |-> MarksheetRow(roster[i], marks[i])]))

\* MarksheetGenerationView.get with student_id: the fee check, then the
\* student's results and summary.
marksheet_generation_student(F, S, user, student, session_id, skip_fee_check, marks) ==
  LET session == IF session_id # None THEN session_id ELSE S[student].session
      pct == percentage(marks.total, marks.full)
  IN IF ~IsAuthenticated(user) THEN SheetResponse("not_authenticated", <<>>, {})
     ELSE IF ~skip_fee_check /\ ~check_student_fees_cleared(F, student, session)
     THEN SheetResponse("fees_pending", <<>>, {})
     ELSE SheetResponse("ok",
            <<[student |-> student, grand_total |-> marks.total, grand_full |-> marks.full,
               percentage |-> round2(pct.num, pct.den)]>>, {})

\* MarksheetGenerationView.get with class_id, section_id and session_id.
marksheet_generation_class(C, CT, F, S, user, class_ref, section, session, skip_fee_check, roster, marks) ==
  IF ~IsAuthenticated(user)
  THEN [response |-> SheetResponse("not_authenticated", <<>>, {}), cache |-> C]
  ELSE LET d == validate_marksheet_generation_permission(C, CT, F, S, user, class_ref,
                  section, session, ~skip_fee_check)
       IN IF ~d.allowed
          THEN [response |-> SheetResponse("denied", <<>>, d.pending), cache |-> d.cache]
          ELSE [response |-> SheetResponse("ok", marksheet_data(roster, marks), {}),
                cache |-> d.cache]

\* MarksheetView.student_marksheet
student_marksheet(user, student, session_id, marks) ==
  LET pct == percentage(marks.total, marks.full)
  IN IF ~IsAuthenticated(user) THEN SheetResponse("not_authenticated", <<>>, {})
     ELSE SheetResponse("ok",
            <<[student |-> student, grand_total |-> marks.total, grand_full |-> marks.full,
               percentage |-> round2(pct.num, pct.den),
               overall_grade |-> overall_grade(pct)]>>, {})

\* MarksheetView.class_marksheet
class_marksheet(user, roster, marks) ==
  IF ~IsAuthenticated(user) THEN SheetResponse("not_authenticated", <<>>, {})
  ELSE SheetResponse("ok", marksheet_data(roster, marks), {})

\* Student.objects.filter(session_id, class_ref_id, section_id), the roster
\* of MarksheetView.class_marksheet (inactive students included).
StudentsOf(S, class_ref, section, session) ==
  {st \in DOMAIN S : /\ S[st].class_ref = class_ref /\ S[st].section = section
                     /\ S[st].session = session}

\* IsAdminOrTeacher.has_permission
IsAdminOrTeacher(user) == user.is_authenticated /\ user.role \in {"admin", "teacher"}

\* SessionNotLocked.has_permission for a write request: session_id is the
\* top-level field of the body (or the query parameter), None when absent.
SessionNotLocked(Sess, session_id) ==
  IF session_id = None THEN TRUE
  ELSE IF ~SessionExists(Sess, session_id) THEN TRUE
  ELSE ~Sess[session_id].is_locked

\* What a core-result view leaves: the error kind, the result rows and the
\* cache.
ResultView(err, R, C) == [err |-> err, results |-> R, cache |-> C]

\* StudentResultUpsertSerializer(data=request.data).save(): the serializer is
\* given the body alone - no user, no request - and stores the row.
StudentResultUpsertSerializer_save(R, Sess, data) == update_or_create(R, Sess, "core", data)

\* BulkStudentResultUpsertSerializer(data=request.data).save(): stores every
\* item of the list, all of them or (an unknown session) none.
RECURSIVE BulkStudentResultUpsertSerializer_save(_, _, _, _)
BulkStudentResultUpsertSerializer_save(R, Sess, items, i) ==
  IF i > Len(items) THEN [err |-> "ok", results |-> R]
  ELSE LET o == update_or_create(R, Sess, "core", items[i])
       IN IF o.err # "ok" THEN o
          ELSE LET rest == BulkStudentResultUpsertSerializer_save(o.results, Sess, items, i + 1)
               IN IF rest.err # "ok" THEN [err |-> rest.err, results |-> R] ELSE rest

\* The teacher branch of upsert and bulk_upsert for one item: the lookups of
\* student, subject and session, then validate_marks_entry_permission.
TeacherCheck(C, A, Sess, S, user, item) ==
  IF ~SessionExists(Sess, item.session_id)
  THEN Decision(FALSE, "Invalid student, subject, or session ID", FALSE, C)
  ELSE validate_marks_entry_permission(C, A, Sess, S, user, item.student_id,
                                       item.subject_id, item.session_id)

\* StudentResultViewSet.upsert
result_upsert(R, C, A, Sess, S, user, data) ==
  IF ~IsAdminOrTeacher(user) THEN ResultView("forbidden", R, C)
  ELSE IF ~SessionNotLocked(Sess, data.session_id) THEN ResultView("session_locked", R, C)
  ELSE LET d == IF user.role = "teacher"
                THEN TeacherCheck(C, A, Sess, S, user, data)
                ELSE Decision(TRUE, None, FALSE, C)
       IN IF d.raised THEN ResultView("server_error", R, d.cache)
          ELSE IF ~d.allowed THEN ResultView("forbidden", R, d.cache)
          ELSE LET o == StudentResultUpsertSerializer_save(R, Sess, data)
               IN ResultView(o.err, o.results, d.cache)

\* StudentResultViewSet.bulk_upsert: the body is {results: [...]}, with no
\* top-level session_id; a teacher is checked against results[0] alone.
result_bulk_upsert(R, C, A, Sess, S, user, items) ==
  IF ~IsAdminOrTeacher(user) THEN ResultView("forbidden", R, C)
  ELSE IF ~SessionNotLocked(Sess, None) THEN ResultView("session_locked", R, C)
  ELSE LET d == IF user.role = "teacher" /\ Len(items) > 0
                THEN TeacherCheck(C, A, Sess, S, user, items[1])
                ELSE Decision(TRUE, None, FALSE, C)
       IN IF d.raised THEN ResultView("server_error", R, d.cache)
          ELSE IF ~d.allowed THEN ResultView("forbidden", R, d.cache)
          ELSE LET o == BulkStudentResultUpsertSerializer_save(R, Sess, items, 1)
               IN ResultView(o.err, o.results, d.cache)

-----------------------------------------------------------------------------
(* Failed login tracking (core_services/views.py).  Times are minutes.     *)

MAX_LOGIN_ATTEMPTS == 5

\* 300 seconds
LOGIN_LOCKOUT_TIME == 5

Ips == {"ip1"}
Emails == {"a@x", "A@x", "b@x"}

\* email.lower()
lower(email) == IF email = "A@x" THEN "a@x" ELSE email

\* get_login_attempt_key(ip, email): the digest prefix of the lower-cased
\* email stands for that email.
get_login_attempt_key(ip, email) == <<"login_attempt", ip, lower(email)>>

\* The default of cache.get(key, {'count': 0, 'blocked_until': None}); the
\* code tests blocked_until for truth, and 0 stands for None.
NoAttempts == [count |-> 0, blocked_until |-> 0]

\* cache.get(key, default) at time t: an entry whose timeout has passed is
\* not returned.
cache_get(C, key, default, t) ==
  IF key \in DOMAIN C /\ t < C[key].expires THEN C[key].value ELSE default

\* cache.set(key, value, timeout) at time t.
cache_set_timeout(C, key, value, timeout, t) ==
  cache_set(C, key, [value |-> value, expires |-> t + timeout])

\* cache.delete(key)
cache_delete(C, key) == [k \in DOMAIN C \ {key} |-> C[k]]

\* check_login_blocked(ip, email) at time t: is_blocked.
check_login_blocked(C, ip, email, t) ==
  LET attempts == cache_get(C, get_login_attempt_key(ip, email), NoAttempts, t)
  IN attempts.blocked_until # 0 /\ t < attempts.blocked_until

\* record_failed_login that starts the lockout only after the limit is passed.
record_failed_login_above(C, ip, email, t) ==
  LET key == get_login_attempt_key(ip, email)
      attempts == cache_get(C, key, NoAttempts, t)
      count == attempts.count + 1
  IN cache_set_timeout(C, key,
       [count |-> count,
        blocked_until |-> IF count > MAX_LOGIN_ATTEMPTS THEN t + LOGIN_LOCKOUT_TIME
                          ELSE attempts.blocked_until],
       LOGIN_LOCKOUT_TIME * 2, t)

\* record_failed_login(ip, email) at time t: the cache it leaves.
record_failed_login(C, ip, email, t) ==
  LET key == get_login_attempt_key(ip, email)
      attempts == cache_get(C, key, NoAttempts, t)
      count == attempts.count + 1
  IN cache_set_timeout(C, key,
       [count |-> count,
        blocked_until |-> IF count >= MAX_LOGIN_ATTEMPTS THEN t + LOGIN_LOCKOUT_TIME
                          ELSE attempts.blocked_until],
       LOGIN_LOCKOUT_TIME * 2, t)

\* clear_failed_logins(ip, email)
clear_failed_logins(C, ip, email) == cache_delete(C, get_login_attempt_key(ip, email))

\* LoginView.post at time t.  `valid` is serializer.is_valid(): the
\* credentials are those of an active user.  The answer is 429 ("locked"),
\* 401 ("invalid") or 200 ("ok").
LoginView_post(C, ip, email, valid, t) ==
  IF check_login_blocked(C, ip, email, t) THEN [status |-> "locked", cache |-> C]
  ELSE IF ~valid THEN [status |-> "invalid", cache |-> record_failed_login(C, ip, email, t)]
  ELSE [status |-> "ok", cache |-> clear_failed_logins(C, ip, email)]

\* What an observer of the login endpoint has seen of one key: the number of
\* failed logins since the last successful one and the time of the fifth of
\* them (0 before it); the length of the current run of failed logins, each
\* less than twice the lockout time after the one before, and the time of
\* the last failed login.
NoFailures == [failures |-> 0, fifth |-> 0, run |-> 0, last |-> 0]

Observed(seen, status, t) ==
  IF status = "ok" THEN NoFailures
  ELSE IF status = "locked" THEN seen
  ELSE [failures |-> seen.failures + 1,
        fifth |-> IF seen.failures + 1 = MAX_LOGIN_ATTEMPTS THEN t ELSE seen.fifth,
        run |-> IF seen.run > 0 /\ t - seen.last < LOGIN_LOCKOUT_TIME * 2
                THEN seen.run + 1 ELSE 1,
        last |-> t]

-----------------------------------------------------------------------------

(* Request bodies. *)

\* The enrollment ids a request names: the known ones and an unknown one.
NamedIds(E, fresh) == DOMAIN E \cup {fresh}

\* Promotions go to section b, of either class (b is a section of c2).
PromotionData(ids) ==
  [enrollment_id : ids, new_class_id : Classes, new_section_id : {"b"},
   new_session_id : SessionIds, new_roll_no : Rolls]

\* A bulk request promotes its enrollments into class c2, section b, and
\* numbers them by position; each item names its enrollment and one of the
\* two coming sessions.
BulkItem(target, i) ==
  [enrollment_id |-> target[1], new_class_id |-> "c2", new_section_id |-> "b",
   new_session_id |-> target[2], new_roll_no |-> IF i % 2 = 1 THEN "1" ELSE "2"]

BulkTargets(ids) == UNION {[1..n -> ids \X {"s2", "s3"}] : n \in 0..MaxBulk}

RetentionData(ids) ==
  [enrollment_id : ids, new_session_id : SessionIds, new_roll_no : Rolls \cup {""}]

TransferData(ids) == [enrollment_id : ids, remarks : Remarks]

\* Admissions go to section a, of either class (a is a section of c1);
\* status is optional on create.
EnrollmentData ==
  [student_id : Students, session_id : SessionIds, class_id : Classes,
   section_id : {"a"}, roll_no : Rolls, status : {None, "graduated"}]

\* An update names the session and at most one other field (a PATCH), or
\* leaves the session out.
NoFields ==
  [student_id |-> None, session_id |-> None, class_id |-> None,
   section_id |-> None, roll_no |-> None, status |-> None]

PatchData ==
  {NoFields}
  \cup {[NoFields EXCEPT !.session_id = s] : s \in SessionIds}
  \cup {[NoFields EXCEPT !.session_id = s, !.student_id = x] : s \in SessionIds, x \in Students}
  \cup {[NoFields EXCEPT !.session_id = s, !.class_id = x] : s \in SessionIds, x \in Classes}
  \cup {[NoFields EXCEPT !.session_id = s, !.section_id = x] : s \in SessionIds, x \in Sections}
  \cup {[NoFields EXCEPT !.session_id = s, !.roll_no = x] : s \in SessionIds, x \in Rolls}
  \cup {[NoFields EXCEPT !.session_id = s, !.status = x] : s \in SessionIds, x \in STATUS_CHOICES}

Grades == {"A", "B"}

ResultData ==
  [student_id : Students, subject_id : Subjects, session_id : SessionIds, grade : Grades]

\* The marks of student st1 in either of two sessions.
CoreResultData ==
  [student_id : {"st1"}, subject_id : Subjects, session_id : {"s1", "s2"}, grade : {"A"}]

CoreResultLists == UNION {[1..n -> CoreResultData] : n \in 0..MaxBulk}

SessionData == [name : SessionNames, is_active : BOOLEAN, is_locked : BOOLEAN]

-----------------------------------------------------------------------------
(* The state after set-up: three sessions, the first one current; student  *)
(* st1 admitted to class c1 section a and enrolled there for the current    *)
(* session, student st2 admitted and not yet placed.                        *)

\* No permission or marksheet call made yet.
NoCall == [fn |-> "none"]

Response(op, err, new, log) == [op |-> op, err |-> err, new |-> new, log |-> log]

Init ==
  /\ sessions = ("s1" :> [name |-> "2023", is_active |-> TRUE, is_locked |-> FALSE])
             @@ ("s2" :> [name |-> "2024", is_active |-> FALSE, is_locked |-> FALSE])
             @@ ("s3" :> [name |-> "2024", is_active |-> FALSE, is_locked |-> FALSE])
  /\ enrollments = (1 :> NewRow("st1", "s1", "c1", "a", "1", "active"))
  /\ students = [st \in Students |->
                   IF st = "st1"
                   THEN [class_ref |-> "c1", section |-> "a", session |-> "s1",
                         roll_no |-> "1", is_active |-> TRUE]
                   ELSE [class_ref |-> None, section |-> None, session |-> None,
                         roll_no |-> "", is_active |-> TRUE]]
  /\ results = {}
  /\ nextId = 2
  /\ nops = 0
  /\ reqs = <<>>
  /\ resp = Response("init", "ok", <<>>, <<>>)
  /\ assignments = {}
  /\ class_teachers = {}
  /\ fees = {}
  /\ cache = <<>>
  /\ now = 0
  /\ call = NoCall

-----------------------------------------------------------------------------
(* Request handlers, each served as a whole. *)

\* A lifecycle view's result becomes the state; `created` fresh ids are used.
Serve(op, v, created) ==
  /\ nops < MaxOps
  /\ nextId + created - 1 <= MaxEnrollments
  /\ enrollments' = v.enrollments
  /\ students' = v.students
  /\ nextId' = nextId + created
  /\ nops' = nops + 1
  /\ resp' = Response(op, v.err, v.new, v.log)
  /\ UNCHANGED <<sessions, results, reqs>>
  /\ UNCHANGED authVars

\* POST student-enrollments/promote/
Promote(data) ==
  LET v == promote(enrollments, students, sessions, data, nextId)
  IN Serve("promote", v, Len(v.new))

\* POST student-enrollments/bulk-promote/
BulkPromote(targets) ==
  LET items == [i \in 1..Len(targets) |-> BulkItem(targets[i], i)]
      v == bulk_promote(enrollments, students, sessions, items, nextId)
  IN Serve("bulk_promote", v, Len(v.new))

\* POST student-enrollments/retain/
Retain(data) ==
  LET v == retain(enrollments, students, sessions, data, nextId)
  IN Serve("retain", v, Len(v.new))

\* POST student-enrollments/transfer/
TransferOut(data) ==
  Serve("transfer", transfer(enrollments, students, data), 0)

\* POST student-enrollments/promote/, interrupted after its k-th write.
PromoteInterrupted(data, k) ==
  LET v == promote_interrupted(enrollments, students, sessions, data, nextId, k)
  IN Serve("promote", v, Cardinality(DOMAIN v.enrollments \ DOMAIN enrollments))

\* POST student-enrollments/retain/, interrupted after its k-th write.
RetainInterrupted(data, k) ==
  LET v == retain_interrupted(enrollments, students, sessions, data, nextId, k)
  IN Serve("retain", v, Cardinality(DOMAIN v.enrollments \ DOMAIN enrollments))

-----------------------------------------------------------------------------
(* Promote requests served by concurrent workers.  No transaction and no    *)
(* row lock (select_for_update) encloses a promote: the read in validate()  *)
(* and each of the three writes is a database statement of its own, and the *)
(* statements of two requests interleave.  reqs[r] is request r: its body,  *)
(* its position, the instances it holds in memory, and its response.        *)

Request(data, pc, self, stu, new, err) ==
  [data |-> data, pc |-> pc, self |-> self, stu |-> stu, new |-> new, err |-> err]

\* Request r ends with response err.
Finish(r, new, err) ==
  /\ reqs' = [reqs EXCEPT ![r].pc = "done", ![r].new = new, ![r].err = err]
  /\ resp' = Response("promote", err, IF err = "ok" THEN <<new>> ELSE <<>>, <<>>)

\* promote, up to serializer.is_valid(): validate() reads the enrollment and
\* keeps the instance.
PromoteValidate(r, data) ==
  /\ nops < MaxOps
  /\ r = Len(reqs) + 1
  /\ LET v == StudentPromotionSerializer_validate(enrollments, sessions, data)
     IN /\ reqs' = Append(reqs,
                     IF v = "ok"
                     THEN Request(data, "create", enrollments[data.enrollment_id],
                                  None, NoId, "pending")
                     ELSE Request(data, "done", None, None, NoId, v))
        /\ resp' = IF v = "ok" THEN resp ELSE Response("promote", v, <<>>, <<>>)
  /\ nops' = nops + 1
  /\ UNCHANGED <<sessions, enrollments, students, results, nextId>>
  /\ UNCHANGED authVars

\* promote_to_next_class, up to objects.create: the status check on the
\* instance in memory, the read of self.student, the insert.
PromoteCreate(r) ==
  /\ r \in DOMAIN reqs /\ reqs[r].pc = "create"
  /\ nextId <= MaxEnrollments
  /\ LET q == reqs[r]
         d == q.data
     IN IF q.self.status # "active"
        THEN Finish(r, NoId, "invalid_state") /\ UNCHANGED <<enrollments, nextId>>
        ELSE IF UniqueViolation(enrollments, q.self.student, d.new_session_id, NoId)
        THEN Finish(r, NoId, "conflict") /\ UNCHANGED <<enrollments, nextId>>
        ELSE /\ enrollments' = promote_insert(enrollments, q.self, d.new_class_id,
                                   d.new_section_id, d.new_session_id, d.new_roll_no, nextId)
             /\ nextId' = nextId + 1
             /\ reqs' = [reqs EXCEPT ![r].pc = "save_self", ![r].new = nextId,
                                      ![r].stu = students[q.self.student]]
             /\ resp' = resp
  /\ UNCHANGED <<sessions, students, results, nops>>
  /\ UNCHANGED authVars

\* promote_to_next_class: self.save()
PromoteSaveSelf(r) ==
  /\ r \in DOMAIN reqs /\ reqs[r].pc = "save_self"
  /\ enrollments' = promote_save_self(enrollments, reqs[r].data.enrollment_id,
                                      reqs[r].self, reqs[r].new)
  /\ reqs' = [reqs EXCEPT ![r].pc = "save_student"]
  /\ UNCHANGED <<sessions, students, results, nextId, nops, resp>>
  /\ UNCHANGED authVars

\* promote_to_next_class: self.student.save(), and the response.
PromoteSaveStudent(r) ==
  /\ r \in DOMAIN reqs /\ reqs[r].pc = "save_student"
  /\ LET q == reqs[r]
         d == q.data
     IN students' = promote_save_student(students, q.self, q.stu, d.new_class_id,
                      d.new_section_id, d.new_session_id, d.new_roll_no)
  /\ Finish(r, reqs[r].new, "ok")
  /\ UNCHANGED <<sessions, enrollments, results, nextId, nops>>
  /\ UNCHANGED authVars

\* POST student-enrollments/
EnrollmentCreate(data) ==
  LET v == enrollment_create(enrollments, students, sessions, data, nextId)
  IN Serve("enrollment_create", v, Len(v.new))

\* PUT / PATCH student-enrollments/<id>/
EnrollmentUpdate(id, data) ==
  Serve("enrollment_update", enrollment_update(enrollments, students, sessions, id, data), 0)

\* A request of StudentEnrollmentViewSet sent by a given user: the view's
\* result becomes the state, and the request's sender is noted.
ServeUser(user, op, v, created) ==
  /\ nops < MaxOps
  /\ nextId + created - 1 <= MaxEnrollments
  /\ enrollments' = v.enrollments
  /\ students' = v.students
  /\ nextId' = nextId + created
  /\ nops' = nops + 1
  /\ resp' = Response(op, v.err, v.new, v.log)
  /\ call' = [fn |-> "enrollment_request", user |-> user.name, role |-> user.role,
              is_authenticated |-> user.is_authenticated]
  /\ UNCHANGED <<sessions, results, reqs, assignments, class_teachers, fees, cache, now>>

UserPromote(user, data) ==
  LET v == Permitted(user, promote(enrollments, students, sessions, data, nextId),
                     enrollments, students)
  IN ServeUser(user, "promote", v, Len(v.new))

UserBulkPromote(user, targets) ==
  LET items == [i \in 1..Len(targets) |-> BulkItem(targets[i], i)]
      v == Permitted(user, bulk_promote(enrollments, students, sessions, items, nextId),
                     enrollments, students)
  IN ServeUser(user, "bulk_promote", v, Len(v.new))

UserRetain(user, data) ==
  LET v == Permitted(user, retain(enrollments, students, sessions, data, nextId),
                     enrollments, students)
  IN ServeUser(user, "retain", v, Len(v.new))

UserTransferOut(user, data) ==
  ServeUser(user, "transfer", Permitted(user, transfer(enrollments, students, data),
                              enrollments, students), 0)

UserEnrollmentCreate(user, data) ==
  LET v == Permitted(user, enrollment_create(enrollments, students, sessions, data, nextId),
                     enrollments, students)
  IN ServeUser(user, "enrollment_create", v, Len(v.new))

UserEnrollmentUpdate(user, id, data) ==
  ServeUser(user, "enrollment_update",
        Permitted(user, enrollment_update(enrollments, students, sessions, id, data),
                  enrollments, students), 0)

UserEnrollmentDestroy(user, id) ==
  ServeUser(user, "enrollment_destroy",
        Permitted(user, enrollment_destroy(enrollments, students, id),
                  enrollments, students), 0)

\* A result view's outcome becomes the state.
ServeResult(op, v) ==
  /\ nops < MaxOps
  /\ results' = v.results
  /\ resp' = Response(op, v.err, <<>>, <<>>)
  /\ nops' = nops + 1
  /\ UNCHANGED <<sessions, enrollments, students, nextId, reqs>>
  /\ UNCHANGED authVars

\* StudentCocurricularResultViewSet.upsert, a POST.
CocurricularUpsert(data) ==
  ServeResult("cocurricular_upsert", cocurricular_upsert(results, sessions, data))

\* StudentOptionalResultViewSet.upsert, a POST.
OptionalUpsert(data) ==
  ServeResult("optional_upsert", optional_upsert(results, sessions, data))

-----------------------------------------------------------------------------
(* Teacher assignments and the marks-entry decision. *)

AssignmentKeys ==
  [teacher : {"t1"}, class_ref : {"c1"}, section : {"a"}, subject : Subjects,
   session : {"s1"}]

AssignmentRow(key, is_active) ==
  [teacher |-> key.teacher, class_ref |-> key.class_ref, section |-> key.section,
   subject |-> key.subject, session |-> key.session, is_active |-> is_active]

\* The rows of A with the natural key `key`.
AssignmentsAt(A, key) == {a \in A : AssignmentRow(key, a.is_active) = a}

\* TeacherAssignmentCreateSerializer.create: super().create(validated_data),
\* an insert; unique_together = [teacher, class_ref, section, subject,
\* session] refuses a second row with the same five values.
TeacherAssignmentCreateSerializer_create(A, key, is_active) ==
  IF AssignmentsAt(A, key) # {}
  THEN [err |-> "conflict", assignments |-> A]
  ELSE [err |-> "ok", assignments |-> A \cup {AssignmentRow(key, is_active)}]

\* POST teacher-assignments/ (TeacherAssignmentViewSet.create, perform_create);
\* no entry of the assignment cache is deleted.
AssignmentCreate(key, is_active) ==
  /\ LET o == TeacherAssignmentCreateSerializer_create(assignments, key, is_active)
     IN /\ assignments' = o.assignments
        /\ call' = [fn |-> "assignment_create", err |-> o.err]
  /\ UNCHANGED <<coreVars, now, class_teachers, fees, cache>>

\* PATCH teacher-assignments/<id>/ with is_active (perform_update)
AssignmentUpdate(key, is_active) ==
  /\ AssignmentsAt(assignments, key) # {}
  /\ assignments' = (assignments \ AssignmentsAt(assignments, key))
                       \cup {AssignmentRow(key, is_active)}
  /\ UNCHANGED <<coreVars, now, class_teachers, fees, cache, call>>

\* DELETE teacher-assignments/<id>/ (perform_destroy)
AssignmentDelete(key) ==
  /\ AssignmentsAt(assignments, key) # {}
  /\ assignments' = assignments \ AssignmentsAt(assignments, key)
  /\ UNCHANGED <<coreVars, now, class_teachers, fees, cache, call>>

\* POST login/ as it reaches LoginView.post (a request the throttle turns
\* away does not reach it).
Login(ip, email, valid) ==
  LET key == get_login_attempt_key(ip, email)
      o == LoginView_post(cache, ip, email, valid, now)
  IN /\ o.status = "invalid" => resp.log[key].failures < MaxFailures
     /\ cache' = o.cache
     /\ resp' = Response("login", o.status, <<>>,
                         [resp.log EXCEPT ![key] = Observed(resp.log[key], o.status, now)])
     /\ call' = [fn |-> "login", key |-> key, valid |-> valid, at |-> now]
     /\ UNCHANGED <<sessions, enrollments, students, results, nextId, nops, reqs>>
     /\ UNCHANGED <<assignments, class_teachers, fees, now>>

\* A minute passes; the cache drops the login entries whose timeout has
\* passed.
Tick ==
  /\ now < MaxClock
  /\ now' = now + 1
  /\ cache' = [k \in {j \in DOMAIN cache : j[1] = "login_attempt" => now + 1 < cache[j].expires}
                 |-> cache[k]]
  /\ UNCHANGED <<coreVars, assignments, class_teachers, fees, call>>

\* The timeout of a cache entry passes.
CacheExpire(key) ==
  /\ key \in DOMAIN cache
  /\ cache' = [k \in DOMAIN cache \ {key} |-> cache[k]]
  /\ UNCHANGED <<coreVars, now, assignments, class_teachers, fees, call>>

\* A call of validate_marks_entry_permission, as the upsert views make it for
\* a teacher's request.
CanEnterMarks(user, student, subject, session) ==
  /\ session \in DOMAIN sessions
  /\ LET d == validate_marks_entry_permission(cache, assignments, sessions, students,
                                              user, student, subject, session)
     IN /\ cache' = d.cache
        /\ call' = [fn |-> "can_enter_marks", user |-> user.name, student |-> student,
                    subject |-> subject, session |-> session,
                    allowed |-> d.allowed, reason |-> d.reason, raised |-> d.raised]
  /\ UNCHANGED <<coreVars, now, assignments, class_teachers, fees>>

\* A core-result view's outcome becomes the state.
ServeCoreResult(op, v) ==
  /\ nops < MaxOps
  /\ results' = v.results
  /\ cache' = v.cache
  /\ resp' = Response(op, v.err, <<>>, <<>>)
  /\ nops' = nops + 1
  /\ UNCHANGED <<sessions, enrollments, students, nextId, reqs>>
  /\ UNCHANGED <<assignments, class_teachers, fees, call, now>>

\* StudentResultViewSet.upsert, a POST by `user`.
ResultUpsert(user, data) ==
  ServeCoreResult("result_upsert",
                  result_upsert(results, cache, assignments, sessions, students, user, data))

\* StudentResultViewSet.bulk_upsert, a POST by `user`.
ResultBulkUpsert(user, items) ==
  ServeCoreResult("result_bulk_upsert",
                  result_bulk_upsert(results, cache, assignments, sessions, students,
                                     user, items))

-----------------------------------------------------------------------------
(* Class teachers, fees and the marksheet decision. *)

\* unique_together = [class_ref, section, session]: one row per key, naming
\* one teacher.
ClassTeacherKeys == [class_ref : {"c1"}, section : {"a"}, session : {"s1"}]

ClassTeacherRow(key, teacher, is_active) ==
  [teacher |-> teacher, class_ref |-> key.class_ref, section |-> key.section,
   session |-> key.session, is_active |-> is_active]

ClassTeachersAt(CT, key) ==
  {ct \in CT : ClassTeacherRow(key, ct.teacher, ct.is_active) = ct}

\* ClassTeacherCreateSerializer.create: update_or_create on (class_ref,
\* section, session) with defaults teacher and is_active.
ClassTeacherCreateSerializer_create(CT, key, teacher, is_active) ==
  (CT \ ClassTeachersAt(CT, key)) \cup {ClassTeacherRow(key, teacher, is_active)}

\* POST class-teachers/ (ClassTeacherViewSet.create)
ClassTeacherCreate(key, teacher, is_active) ==
  /\ class_teachers' = ClassTeacherCreateSerializer_create(class_teachers, key, teacher, is_active)
  /\ call' = [fn |-> "class_teacher_create", err |-> "ok"]
  /\ UNCHANGED <<coreVars, now, assignments, fees, cache>>

\* PUT / PATCH class-teachers/<id>/ (ClassTeacherViewSet.update)
ClassTeacherUpdate(key, teacher, is_active) ==
  /\ ClassTeachersAt(class_teachers, key) # {}
  /\ class_teachers' = (class_teachers \ ClassTeachersAt(class_teachers, key))
                          \cup {ClassTeacherRow(key, teacher, is_active)}
  /\ UNCHANGED <<coreVars, now, assignments, fees, cache, call>>

\* DELETE class-teachers/<id>/ (ClassTeacherViewSet.destroy)
ClassTeacherDelete(key) ==
  /\ ClassTeachersAt(class_teachers, key) # {}
  /\ class_teachers' = class_teachers \ ClassTeachersAt(class_teachers, key)
  /\ UNCHANGED <<coreVars, now, assignments, fees, cache, call>>

\* The payments application sets the status of the student's fee for the
\* session (StudentFee rows, as check_student_fees_cleared reads them).
FeeStatus(student, session, status) ==
  /\ fees' = {f \in fees : ~(f.student = student /\ f.session = session)}
               \cup {[student |-> student, session |-> session, status |-> status]}
  /\ UNCHANGED <<coreVars, now, assignments, class_teachers, cache, call>>

\* A call of validate_marksheet_generation_permission.
CanGenerateMarksheet(user, class_ref, section, session, check_fees) ==
  /\ LET d == validate_marksheet_generation_permission(cache, class_teachers, fees,
                 students, user, class_ref, section, session, check_fees)
     IN /\ cache' = d.cache
        /\ call' = [fn |-> "can_generate_marksheet", user |-> user.name,
                    class_ref |-> class_ref, section |-> section, session |-> session,
                    check_fees |-> check_fees, allowed |-> d.allowed,
                    reason |-> d.reason, pending |-> d.pending]
  /\ UNCHANGED <<coreVars, now, assignments, class_teachers, fees>>

\* The totals of a student's result rows: (total, full) summed over the core
\* and optional results of the session.
Marks == {[total |-> 0, full |-> 0], [total |-> 1, full |-> 3],
          [total |-> 3333, full |-> 10000], [total |-> 9, full |-> 10]}

SheetCall(fn, user, r) ==
  [fn |-> fn, user |-> user.name, status |-> r.status, data |-> r.data,
   pending |-> r.pending]

\* GET on MarksheetGenerationView with student_id.
MarksheetGenerationStudent(user, student, session_id, skip_fee_check, marks) ==
  /\ call' = SheetCall("marksheet_generation_student", user,
               marksheet_generation_student(fees, students, user, student, session_id,
                                            skip_fee_check, marks))
  /\ UNCHANGED <<coreVars, now, assignments, class_teachers, fees, cache>>

\* GET on MarksheetGenerationView with class_id, section_id and session_id.
MarksheetGenerationClass(user, class_ref, section, session, skip_fee_check, marks) ==
  /\ \E roster \in OrderByRollNo(students, ActiveStudentsOf(students, class_ref, section, session)) :
       LET v == marksheet_generation_class(cache, class_teachers, fees, students, user,
                  class_ref, section, session, skip_fee_check, roster,
                  [i \in DOMAIN roster |-> marks[roster[i]]])
       IN /\ call' = SheetCall("marksheet_generation_class", user, v.response)
          /\ cache' = v.cache
  /\ UNCHANGED <<coreVars, now, assignments, class_teachers, fees>>

\* GET on MarksheetView.student_marksheet.
StudentMarksheet(user, student, session_id, marks) ==
  /\ call' = SheetCall("student_marksheet", user,
               student_marksheet(user, student, session_id, marks))
  /\ UNCHANGED <<coreVars, now, assignments, class_teachers, fees, cache>>

\* GET on MarksheetView.class_marksheet.
ClassMarksheet(user, class_ref, section, session, marks) ==
  /\ \E roster \in OrderByRollNo(students, StudentsOf(students, class_ref, section, session)) :
       call' = SheetCall("class_marksheet", user,
                class_marksheet(user, roster, [i \in DOMAIN roster |-> marks[roster[i]]]))
  /\ UNCHANGED <<coreVars, now, assignments, class_teachers, fees, cache>>

\* A percentage given in hundredths, as the fraction the grade is taken of.
Hundredths(p) == [num |-> p, den |-> 100]

\* The grade computation of MarksheetView.student_marksheet, applied to the
\* percentage at hand.
OverallGrade ==
  /\ call.fn = "percentage"
  /\ call' = [fn |-> "overall_grade", percentage |-> call.percentage,
              overall_grade |-> overall_grade(Hundredths(call.percentage))]
  /\ UNCHANGED <<coreVars, now, assignments, class_teachers, fees, cache>>

\* The sorting and numbering of both class marksheet views, applied to the
\* roster at hand.
RankRoster ==
  /\ call.fn = "roster"
  /\ call' = [fn |-> "class_marksheet", roster |-> call.roster, marks |-> call.marks,
              students |-> marksheet_data(call.roster, call.marks)]
  /\ UNCHANGED <<coreVars, now, assignments, class_teachers, fees, cache>>

\* The summary computation of the single-student marksheet views, applied to
\* the result rows at hand; nops counts the calls.
ComputeStudentSummary ==
  /\ call.fn \in {"rows", "summary"}
  /\ nops < MaxOps
  /\ nops' = nops + 1
  /\ call' = [fn |-> "summary", core |-> call.core, optional |-> call.optional,
              summary |-> summary(call.core, call.optional)]
  /\ UNCHANGED <<sessions, enrollments, students, results, nextId, reqs, resp>>
  /\ UNCHANGED <<assignments, class_teachers, fees, cache, now>>

\* POST admin/session-lock/ (SessionLockView.post)
Lock(s) ==
  /\ nops < MaxOps
  /\ LET v == SessionLockSerializer_validate(sessions, s)
     IN /\ sessions' = IF v = "ok" THEN SessionLockSerializer_create(sessions, s) ELSE sessions
        /\ resp' = Response("lock", v, <<>>, <<>>)
  /\ nops' = nops + 1
  /\ UNCHANGED <<enrollments, students, results, nextId, reqs>>
  /\ UNCHANGED authVars

\* POST sessions/ (SessionViewSet.create with SessionSerializer): every field
\* of the serializer but id and created_at is writable.
SessionCreate(s, data) ==
  /\ nops < MaxOps
  /\ s \notin DOMAIN sessions
  /\ sessions' = sessions @@ (s :> data)
  /\ resp' = Response("session_create", "ok", <<>>, <<>>)
  /\ nops' = nops + 1
  /\ UNCHANGED <<enrollments, students, results, nextId, reqs>>
  /\ UNCHANGED authVars

\* PUT / PATCH sessions/<id>/ (SessionViewSet.update with SessionSerializer)
SessionUpdate(s, data) ==
  /\ nops < MaxOps
  /\ sessions' = IF SessionExists(sessions, s) THEN [sessions EXCEPT ![s] = data] ELSE sessions
  /\ resp' = Response("session_update",
                      IF SessionExists(sessions, s) THEN "ok" ELSE "not_found", <<>>, <<>>)
  /\ nops' = nops + 1
  /\ UNCHANGED <<enrollments, students, results, nextId, reqs>>
  /\ UNCHANGED authVars

Next ==
  \/ \E data \in PromotionData(NamedIds(enrollments, nextId)) : Promote(data)
  \/ \E targets \in BulkTargets(NamedIds(enrollments, nextId)) : BulkPromote(targets)
  \/ \E data \in RetentionData(NamedIds(enrollments, nextId)) : Retain(data)
  \/ \E data \in TransferData(NamedIds(enrollments, nextId)) : TransferOut(data)
  \/ \E data \in EnrollmentData : EnrollmentCreate(data)
  \/ \E id \in NamedIds(enrollments, nextId), data \in PatchData : EnrollmentUpdate(id, data)
  \/ \E s \in SessionIds : Lock(s)
  \/ \E s \in SessionIds, data \in SessionData : SessionCreate(s, data)
  \/ \E s \in SessionIds, data \in SessionData : SessionUpdate(s, data)
  \/ \E data \in ResultData : CocurricularUpsert(data)
  \/ \E data \in ResultData : OptionalUpsert(data)

Spec == Init /\ [][Next]_vars

\* The enrollment lifecycle alone: admission, the four lifecycle operations
\* and the session lock.
NextLifecycle ==
  \/ \E data \in PromotionData(NamedIds(enrollments, nextId)) : Promote(data)
  \/ \E targets \in BulkTargets(NamedIds(enrollments, nextId)) : BulkPromote(targets)
  \/ \E data \in RetentionData(NamedIds(enrollments, nextId)) : Retain(data)
  \/ \E data \in TransferData(NamedIds(enrollments, nextId)) : TransferOut(data)
  \/ \E data \in EnrollmentData : EnrollmentCreate(data)
  \/ \E s \in SessionIds : Lock(s)

SpecLifecycle == Init /\ [][NextLifecycle]_vars

\* Admission, single promotion and the session lock.
NextPromote ==
  \/ \E data \in PromotionData(NamedIds(enrollments, nextId)) : Promote(data)
  \/ \E data \in EnrollmentData : EnrollmentCreate(data)
  \/ \E s \in SessionIds : Lock(s)

SpecPromote == Init /\ [][NextPromote]_vars

\* Admission, bulk promotion and the session lock.
NextBulk ==
  \/ \E targets \in BulkTargets(NamedIds(enrollments, nextId)) : BulkPromote(targets)
  \/ \E data \in EnrollmentData : EnrollmentCreate(data)
  \/ \E s \in SessionIds : Lock(s)

SpecBulk == Init /\ [][NextBulk]_vars

\* Single promote and retain requests that can be cut short after any of their
\* writes, next to admissions and requests that run to their end.
NextFault ==
  \/ \E data \in PromotionData(NamedIds(enrollments, nextId)) : Promote(data)
  \/ \E data \in RetentionData(NamedIds(enrollments, nextId)) : Retain(data)
  \/ \E data \in EnrollmentData : EnrollmentCreate(data)
  \/ \E data \in PromotionData(NamedIds(enrollments, nextId)), k \in 1..3 :
       PromoteInterrupted(data, k)
  \/ \E data \in RetentionData(NamedIds(enrollments, nextId)), k \in 1..2 :
       RetainInterrupted(data, k)

SpecFault == Init /\ [][NextFault]_vars

\* The session registry alone: the lock endpoint and the session endpoint.
NextSessions ==
  \/ \E s \in SessionIds : Lock(s)
  \/ \E s \in SessionIds, data \in SessionData : SessionCreate(s, data)
  \/ \E s \in SessionIds, data \in SessionData : SessionUpdate(s, data)

SpecSessions == Init /\ [][NextSessions]_vars

\* Result entry next to the session lock.
NextResults ==
  \/ \E s \in SessionIds : Lock(s)
  \/ \E data \in ResultData : CocurricularUpsert(data)
  \/ \E data \in ResultData : OptionalUpsert(data)

SpecResults == Init /\ [][NextResults]_vars

MarksUsers == {AdminUser, TeacherUser("t1"), OrphanTeacherUser, StudentRoleUser}

\* Marks-entry decisions next to assignment changes, cache expiry and the lock.
NextMarks ==
  \/ \E key \in AssignmentKeys, is_active \in BOOLEAN : AssignmentCreate(key, is_active)
  \/ \E key \in AssignmentKeys, is_active \in BOOLEAN : AssignmentUpdate(key, is_active)
  \/ \E key \in AssignmentKeys : AssignmentDelete(key)
  \/ \E key \in DOMAIN cache : CacheExpire(key)
  \/ \E user \in MarksUsers, student \in Students, subject \in Subjects,
        session \in SessionIds : CanEnterMarks(user, student, subject, session)
  \/ \E s \in SessionIds : Lock(s)

SpecMarks == Init /\ [][NextMarks]_vars

CoreResultUsers == {AdminUser, TeacherUser("t1"), StudentRoleUser, AnonymousUser}

\* Core-result entry next to the assignment of teachers and the lock.
NextCoreResults ==
  \/ \E key \in AssignmentKeys, is_active \in BOOLEAN : AssignmentCreate(key, is_active)
  \/ \E user \in CoreResultUsers, data \in CoreResultData : ResultUpsert(user, data)
  \/ \E user \in CoreResultUsers, items \in CoreResultLists : ResultBulkUpsert(user, items)
  \/ \E s \in SessionIds : Lock(s)

SpecCoreResults == Init /\ [][NextCoreResults]_vars

SheetUsers == {AdminUser, TeacherUser("t1"), OrphanTeacherUser, StudentRoleUser}
FeeStatuses == {"paid", "pending", "overdue"}

\* Two students in class c1 section a for session s1, three sessions, no
\* class teacher and no fee recorded yet.
InitSheets ==
  /\ sessions = ("s1" :> [name |-> "2023", is_active |-> TRUE, is_locked |-> FALSE])
             @@ ("s2" :> [name |-> "2024", is_active |-> FALSE, is_locked |-> FALSE])
             @@ ("s3" :> [name |-> "2024", is_active |-> FALSE, is_locked |-> FALSE])
  /\ enrollments = (1 :> NewRow("st1", "s1", "c1", "a", "1", "active"))
                 @@ (2 :> NewRow("st2", "s1", "c1", "a", "2", "active"))
  /\ students = [st \in Students |->
                   [class_ref |-> "c1", section |-> "a", session |-> "s1",
                    roll_no |-> IF st = "st1" THEN "1" ELSE "2", is_active |-> TRUE]]
  /\ results = {}
  /\ nextId = 3
  /\ nops = 0
  /\ reqs = <<>>
  /\ resp = Response("init", "ok", <<>>, <<>>)
  /\ assignments = {}
  /\ class_teachers = {}
  /\ fees = {}
  /\ cache = <<>>
  /\ now = 0
  /\ call = NoCall

\* Marksheet decisions next to class-teacher changes, fee changes and cache
\* expiry.
NextSheets ==
  \/ \E key \in ClassTeacherKeys, t \in Teachers, is_active \in BOOLEAN :
       ClassTeacherCreate(key, t, is_active)
  \/ \E key \in ClassTeacherKeys, t \in Teachers, is_active \in BOOLEAN :
       ClassTeacherUpdate(key, t, is_active)
  \/ \E key \in ClassTeacherKeys : ClassTeacherDelete(key)
  \/ \E st \in Students, status \in FeeStatuses : FeeStatus(st, "s1", status)
  \/ \E key \in DOMAIN cache : CacheExpire(key)
  \/ \E user \in SheetUsers, session \in {"s1", "s2"}, check_fees \in BOOLEAN :
       CanGenerateMarksheet(user, "c1", "a", session, check_fees)

SpecSheets == InitSheets /\ [][NextSheets]_vars

EntryUsers == {AdminUser, TeacherUser("t1"), StudentRoleUser, AnonymousUser}
EntryMarks == {[total |-> 0, full |-> 0], [total |-> 9, full |-> 10]}

\* The four marksheet entry points next to class-teacher and fee changes.
NextEntry ==
  \/ \E key \in ClassTeacherKeys, is_active \in BOOLEAN :
       ClassTeacherCreate(key, "t1", is_active)
  \/ \E st \in Students, status \in {"paid", "pending"} : FeeStatus(st, "s1", status)
  \/ \E user \in EntryUsers, st \in Students, session_id \in {None, "s1"},
        skip_fee_check \in BOOLEAN, marks \in EntryMarks :
       MarksheetGenerationStudent(user, st, session_id, skip_fee_check, marks)
  \/ \E user \in EntryUsers, skip_fee_check \in BOOLEAN, marks \in [Students -> EntryMarks] :
       MarksheetGenerationClass(user, "c1", "a", "s1", skip_fee_check, marks)
  \/ \E user \in EntryUsers, st \in Students, session_id \in {None, "s1"},
        marks \in EntryMarks :
       StudentMarksheet(user, st, session_id, marks)
  \/ \E user \in EntryUsers, marks \in [Students -> EntryMarks] :
       ClassMarksheet(user, "c1", "a", "s1", marks)

SpecEntry == InitSheets /\ [][NextEntry]_vars

RoleUsers == {AdminUser, TeacherUser("t1"), StudentRoleUser, AnonymousUser}

\* The enrollment requests of users of every role: of each kind, requests
\* that pass validation and requests that fail it.
NextRoles ==
  \/ \E user \in RoleUsers :
       \E data \in {d \in PromotionData(NamedIds(enrollments, nextId)) :
                      /\ d.new_class_id = "c2" /\ d.new_roll_no = "1"
                      /\ d.new_session_id \in {"s1", "s2"}} :
         UserPromote(user, data)
  \/ \E user \in RoleUsers :
       \E targets \in {t \in BulkTargets(NamedIds(enrollments, nextId)) : Len(t) <= 1} :
         UserBulkPromote(user, targets)
  \/ \E user \in RoleUsers :
       \E data \in {d \in RetentionData(NamedIds(enrollments, nextId)) :
                      d.new_roll_no = "2" /\ d.new_session_id \in {"s1", "s3"}} :
         UserRetain(user, data)
  \/ \E user \in RoleUsers, data \in TransferData(NamedIds(enrollments, nextId)) :
       UserTransferOut(user, data)
  \/ \E user \in RoleUsers :
       \E data \in {d \in EnrollmentData :
                      /\ d.class_id = "c1" /\ d.roll_no = "2" /\ d.status = None
                      /\ d.session_id \in {"s1", "s4"}} :
         UserEnrollmentCreate(user, data)
  \/ \E user \in RoleUsers, id \in NamedIds(enrollments, nextId) :
       \E data \in {d \in PatchData :
                      /\ d.student_id = None /\ d.class_id = None /\ d.section_id = None
                      /\ d.roll_no = None /\ d.session_id \in {None, "s1"}} :
         UserEnrollmentUpdate(user, id, data)
  \/ \E user \in RoleUsers, id \in NamedIds(enrollments, nextId) :
       UserEnrollmentDestroy(user, id)

SpecRoles == Init /\ [][NextRoles]_vars

\* Any percentage from 0 to MaxPercent hundredths is to be graded.
InitGrade ==
  /\ sessions = <<>>
  /\ enrollments = <<>>
  /\ students = <<>>
  /\ results = {}
  /\ nextId = 1
  /\ nops = 0
  /\ reqs = <<>>
  /\ resp = Response("init", "ok", <<>>, <<>>)
  /\ assignments = {}
  /\ class_teachers = {}
  /\ fees = {}
  /\ cache = <<>>
  /\ now = 0
  /\ \E p \in 0..MaxPercent : call = [fn |-> "percentage", percentage |-> p]

SpecGrade == InitGrade /\ [][OverallGrade]_vars

\* Any roster of up to MaxRoster students, numbered in roll_no order, each
\* with the totals of its result rows (0 of 0 for a student without results).
InitRank ==
  /\ sessions = <<>>
  /\ enrollments = <<>>
  /\ students = <<>>
  /\ results = {}
  /\ nextId = 1
  /\ nops = 0
  /\ reqs = <<>>
  /\ resp = Response("init", "ok", <<>>, <<>>)
  /\ assignments = {}
  /\ class_teachers = {}
  /\ fees = {}
  /\ cache = <<>>
  /\ now = 0
  /\ \E n \in 0..MaxRoster : \E marks \in [1..n -> Marks] :
       call = [fn |-> "roster", roster |-> [i \in 1..n |-> i], marks |-> marks]

SpecRank == InitRank /\ [][RankRoster]_vars

\* Everything that inserts enrollments: admissions, retentions, bulk
\* promotions, and promotions whose statements interleave.
NextUnique ==
  \/ \E data \in {d \in EnrollmentData :
                     /\ d.class_id = "c1" /\ d.roll_no = "2" /\ d.status = None
                     /\ d.session_id \in {"s1", "s2"}} :
       EnrollmentCreate(data)
  \/ \E data \in {d \in RetentionData(NamedIds(enrollments, nextId)) :
                     d.new_roll_no = "" /\ d.new_session_id \in {"s2", "s3"}} :
       Retain(data)
  \/ \E targets \in BulkTargets(NamedIds(enrollments, nextId)) : BulkPromote(targets)
  \/ \E r \in 1..MaxOps :
       \E data \in {d \in PromotionData(NamedIds(enrollments, nextId)) :
                      /\ d.new_class_id = "c2" /\ d.new_roll_no = "1"
                      /\ d.new_session_id \in {"s2", "s3"}} :
         PromoteValidate(r, data)
  \/ \E r \in 1..MaxOps : PromoteCreate(r)
  \/ \E r \in 1..MaxOps : PromoteSaveSelf(r)
  \/ \E r \in 1..MaxOps : PromoteSaveStudent(r)

SpecUnique == Init /\ [][NextUnique]_vars

\* Admission, promotion and retention.
NextRetain ==
  \/ \E data \in RetentionData(NamedIds(enrollments, nextId)) : Retain(data)
  \/ \E data \in {d \in PromotionData(NamedIds(enrollments, nextId)) :
                     /\ d.new_class_id = "c2" /\ d.new_roll_no = "2"
                     /\ d.new_session_id \in {"s2", "s3"}} :
       Promote(data)
  \/ \E data \in {d \in EnrollmentData :
                     /\ d.class_id = "c1" /\ d.roll_no = "2" /\ d.status = None
                     /\ d.session_id \in {"s1", "s2"}} :
       EnrollmentCreate(data)

SpecRetain == Init /\ [][NextRetain]_vars

\* Creation of subject-teacher and class-teacher assignments, for either
\* teacher.
NextUpsert ==
  \/ \E key \in [teacher : Teachers, class_ref : {"c1"}, section : {"a"},
                  subject : Subjects, session : {"s1", "s2"}], is_active \in BOOLEAN :
       AssignmentCreate(key, is_active)
  \/ \E key \in ClassTeacherKeys, t \in Teachers, is_active \in BOOLEAN :
       ClassTeacherCreate(key, t, is_active)

SpecUpsert == Init /\ [][NextUpsert]_vars

\* Writes to both assignment tables next to the two cached lookups of
\* teacher t1 and the expiry of cache entries.
NextCache ==
  \/ \E key \in AssignmentKeys, is_active \in BOOLEAN : AssignmentCreate(key, is_active)
  \/ \E key \in AssignmentKeys, is_active \in BOOLEAN : AssignmentUpdate(key, is_active)
  \/ \E key \in AssignmentKeys : AssignmentDelete(key)
  \/ \E key \in ClassTeacherKeys, t \in Teachers, is_active \in BOOLEAN :
       ClassTeacherCreate(key, t, is_active)
  \/ \E key \in ClassTeacherKeys, t \in Teachers, is_active \in BOOLEAN :
       ClassTeacherUpdate(key, t, is_active)
  \/ \E key \in ClassTeacherKeys : ClassTeacherDelete(key)
  \/ \E key \in DOMAIN cache : CacheExpire(key)
  \/ \E subject \in Subjects : CanEnterMarks(TeacherUser("t1"), "st1", subject, "s1")
  \/ \E check_fees \in BOOLEAN :
       CanGenerateMarksheet(TeacherUser("t1"), "c1", "a", "s1", check_fees)

SpecCache == Init /\ [][NextCache]_vars

CoreRows == {[total_marks |-> 45, full_marks |-> 100], [total_marks |-> 100, full_marks |-> 100]}
OptionalRows == {[obtained_marks |-> 0, full_marks |-> 0], [obtained_marks |-> 1, full_marks |-> 3]}

\* Any student's result rows: up to MaxRows core rows and up to MaxRows
\* optional rows, none for a student without results.
InitSummary ==
  /\ sessions = <<>>
  /\ enrollments = <<>>
  /\ students = <<>>
  /\ results = {}
  /\ nextId = 1
  /\ nops = 0
  /\ reqs = <<>>
  /\ resp = Response("init", "ok", <<>>, <<>>)
  /\ assignments = {}
  /\ class_teachers = {}
  /\ fees = {}
  /\ cache = <<>>
  /\ now = 0
  /\ \E n, k \in 0..MaxRows : \E core \in [1..n -> CoreRows], optional \in [1..k -> OptionalRows] :
       call = [fn |-> "rows", core |-> core, optional |-> optional]

SpecSummary == InitSummary /\ [][ComputeStudentSummary]_vars

\* Section.class_ref: the class a section belongs to.
section_class_ref == [s \in Sections |-> IF s = "a" THEN "c1" ELSE "c2"]

\* Admission, update and promotion of enrollments.
NextSection ==
  \/ \E data \in EnrollmentData : EnrollmentCreate(data)
  \/ \E id \in NamedIds(enrollments, nextId), data \in PatchData : EnrollmentUpdate(id, data)
  \/ \E data \in PromotionData(NamedIds(enrollments, nextId)) : Promote(data)

SpecSection == Init /\ [][NextSection]_vars

\* The requests the administrator sends for stored enrollments: the three
\* lifecycle operations on one enrollment, update and delete.
NextHistory ==
  \/ \E data \in PromotionData(NamedIds(enrollments, nextId)) : Promote(data)
  \/ \E data \in RetentionData(NamedIds(enrollments, nextId)) : Retain(data)
  \/ \E data \in TransferData(NamedIds(enrollments, nextId)) : TransferOut(data)
  \/ \E id \in NamedIds(enrollments, nextId), data \in PatchData : EnrollmentUpdate(id, data)
  \/ \E id \in NamedIds(enrollments, nextId) : UserEnrollmentDestroy(AdminUser, id)

SpecHistory == Init /\ [][NextHistory]_vars

\* The lifecycle requests that build promotion chains: admissions of either
\* student, promotions (single and bulk) and retentions into the coming
\* sessions, transfers.
NextChains ==
  \/ \E data \in {d \in EnrollmentData : /\ d.class_id = "c1" /\ d.roll_no = "1"
                                         /\ d.status = None /\ d.session_id \in {"s1", "s2"}} :
       EnrollmentCreate(data)
  \/ \E data \in {d \in PromotionData(NamedIds(enrollments, nextId)) :
                    /\ d.new_class_id = "c2" /\ d.new_roll_no = "1"
                    /\ d.new_session_id \in {"s2", "s3"}} : Promote(data)
  \/ \E targets \in BulkTargets(DOMAIN enrollments) : BulkPromote(targets)
  \/ \E data \in {d \in RetentionData(DOMAIN enrollments) :
                    d.new_roll_no = "" /\ d.new_session_id \in {"s2", "s3"}} : Retain(data)
  \/ \E data \in {d \in TransferData(DOMAIN enrollments) : d.remarks = ""} : TransferOut(data)

SpecChains == Init /\ [][NextChains]_vars

\* The login endpoint before any attempt.
InitLogin ==
  /\ sessions = <<>>
  /\ enrollments = <<>>
  /\ students = <<>>
  /\ results = {}
  /\ nextId = 1
  /\ nops = 0
  /\ reqs = <<>>
  /\ resp = Response("init", "ok", <<>>,
                     [key \in {get_login_attempt_key(ip, email) : ip \in Ips, email \in Emails}
                        |-> NoFailures])
  /\ assignments = {}
  /\ class_teachers = {}
  /\ fees = {}
  /\ cache = <<>>
  /\ now = 0
  /\ call = NoCall

\* Logins of one client: with either spelling of the first email, right or
\* wrong; with the second email, wrong.
NextLogin ==
  \/ \E ip \in Ips, email \in Emails, valid \in BOOLEAN :
       (email = "b@x" => ~valid) /\ Login(ip, email, valid)
  \/ Tick

SpecLogin == InitLogin /\ [][NextLogin]_vars

\* Promote requests whose statements interleave.
NextConc ==
  \/ \E r \in 1..MaxOps, data \in PromotionData(NamedIds(enrollments, nextId)) :
       PromoteValidate(r, data)
  \/ \E r \in 1..MaxOps : PromoteCreate(r)
  \/ \E r \in 1..MaxOps : PromoteSaveSelf(r)
  \/ \E r \in 1..MaxOps : PromoteSaveStudent(r)

SpecConc == Init /\ [][NextConc]_vars

-----------------------------------------------------------------------------
(* Properties of the enrollment lifecycle. *)

\* C1: a promotion - the single one, or one item of a bulk request - is
\* applied only to an enrollment whose stored status is 'active' at that
\* moment: promote_to_next_class run on an enrollment whose stored row is not
\* active fails and writes nothing.  (The error kind is left open here: the
\* statement is refuted by a promotion that succeeds.)
C1_PromoteOnlyStoredActive ==
  resp.op \in {"promote", "bulk_promote"} =>
    \A i \in DOMAIN resp.log :
      resp.log[i].stored # "active" =>
        (resp.log[i].err # "ok" /\ ~resp.log[i].wrote)

\* C2: status transitions are terminal: no step changes the status of an
\* enrollment that is not active, and a retain or transfer run on an
\* enrollment that is not active writes nothing, so it creates no further
\* enrollment from it.  (For promote and bulk promote that second half is C1.)
C2_TransitionsTerminal ==
  [][/\ \A e \in DOMAIN enrollments :
          enrollments[e].status # "active" =>
            enrollments'[e].status = enrollments[e].status
     /\ resp'.op \in {"retain", "transfer"} =>
          \A i \in DOMAIN resp'.log :
            resp'.log[i].stored # "active" => ~resp'.log[i].wrote]_vars

\* What C3 says a successful promote leaves, for the request `data`.
PromotePost(data) ==
  LET e == data.enrollment_id
      n == resp'.new[1]
      st == enrollments[e].student
  IN /\ enrollments[e].status = "active"
     /\ Len(resp'.new) = 1
     /\ n \notin DOMAIN enrollments
     /\ DOMAIN enrollments' = DOMAIN enrollments \cup {n}
     /\ enrollments'[n].student = st
     /\ enrollments'[n].status = "active"
     /\ enrollments'[n].session = data.new_session_id
     /\ enrollments'[n].class_ref = data.new_class_id
     /\ enrollments'[n].section = data.new_section_id
     /\ enrollments'[n].roll_no = data.new_roll_no
     /\ enrollments'[e].status = "promoted"
     /\ enrollments'[e].promoted_to = n
     /\ students'[st].class_ref = data.new_class_id
     /\ students'[st].section = data.new_section_id
     /\ students'[st].session = data.new_session_id
     /\ students'[st].roll_no = data.new_roll_no

\* C3: a successful promote of an active enrollment creates exactly one new
\* active enrollment of the same student with the requested session, class,
\* section and roll number, marks the source promoted with promoted_to the
\* new row, copies the new placement to the student, and returns the new row.
C3_PromoteEffect ==
  [][\A data \in PromotionData(NamedIds(enrollments, nextId)) :
       (Promote(data) /\ resp'.err = "ok") => PromotePost(data)]_vars

\* A promote that succeeded: the returned row is the active successor of a
\* promoted enrollment.
C3_Witness ==
  /\ resp.op = "promote" /\ resp.err = "ok"
  /\ \E e \in DOMAIN enrollments :
       /\ enrollments[e].status = "promoted"
       /\ enrollments[e].promoted_to = resp.new[1]

\* C4: single promote and retain are atomic: when the operation is cut short
\* after one of its writes, the stored rows show either all of its writes or
\* none of them.
C4_SingleAtomic ==
  [][/\ \A data \in PromotionData(NamedIds(enrollments, nextId)), k \in 1..3 :
          PromoteInterrupted(data, k) =>
            LET id == data.enrollment_id
            IN \/ Db(enrollments', students') = Db(enrollments, students)
               \/ Db(enrollments', students') =
                    PromoteWrites(enrollments, students, id, enrollments[id],
                                  students[enrollments[id].student], data.new_class_id,
                                  data.new_section_id, data.new_session_id,
                                  data.new_roll_no, nextId, 3)
     /\ \A data \in RetentionData(NamedIds(enrollments, nextId)), k \in 1..2 :
          RetainInterrupted(data, k) =>
            LET id == data.enrollment_id
            IN \/ Db(enrollments', students') = Db(enrollments, students)
               \/ Db(enrollments', students') =
                    RetainWrites(enrollments, students, id, enrollments[id],
                                 data.new_session_id, data.new_roll_no, nextId, 2)]_vars

\* C5: a bulk promote that fails leaves every enrollment and every student
\* as they were: no new row, no status or promoted_to change, no change of a
\* student's placement.
C5_BulkAllOrNothing ==
  [][(resp'.op = "bulk_promote" /\ resp'.err # "ok") =>
       (enrollments' = enrollments /\ students' = students)]_vars

\* A bulk promote whose first item was applied and whose second item then
\* failed on the (student, session) uniqueness.
C5_Witness ==
  /\ resp.op = "bulk_promote" /\ resp.err = "conflict"
  /\ Len(resp.log) = 2
  /\ resp.log[1].err = "ok" /\ resp.log[1].wrote

\* C6: of the promote requests for one enrollment whose statements interleave,
\* at most one succeeds, whatever their target sessions.
C6_AtMostOnePromoteSucceeds ==
  \A r1, r2 \in DOMAIN reqs :
    (r1 # r2 /\ reqs[r1].data.enrollment_id = reqs[r2].data.enrollment_id) =>
      ~(reqs[r1].err = "ok" /\ reqs[r2].err = "ok")

-----------------------------------------------------------------------------
(* Properties of the session lock. *)

\* C7: locking is monotonic: a session that is locked stays locked in every
\* later state.
C7_LockMonotonic ==
  [][\A s \in DOMAIN sessions :
       sessions[s].is_locked => (s \in DOMAIN sessions' /\ sessions'[s].is_locked)]_vars

\* C8: lock(s) on an unlocked session sets is_locked and clears is_active and
\* changes nothing else; on a locked session it fails with already-locked and
\* on an unknown id with not-found, and then nothing changes.
C8_LockEffect ==
  [][\A s \in SessionIds :
       Lock(s) =>
         /\ UNCHANGED <<enrollments, students, results>>
         /\ IF ~SessionExists(sessions, s)
            THEN resp'.err = "not_found" /\ sessions' = sessions
            ELSE IF sessions[s].is_locked
            THEN resp'.err = "already_locked" /\ sessions' = sessions
            ELSE /\ resp'.err = "ok"
                 /\ DOMAIN sessions' = DOMAIN sessions
                 /\ sessions'[s] = [name |-> sessions[s].name, is_active |-> FALSE,
                                    is_locked |-> TRUE]
                 /\ \A t \in DOMAIN sessions \ {s} : sessions'[t] = sessions[t]]_vars

\* The current session s1 locked by a lock request, and a second lock of it
\* refused.
C8_Witness ==
  /\ resp.op = "lock" /\ resp.err = "already_locked"
  /\ sessions["s1"] = [name |-> "2023", is_active |-> FALSE, is_locked |-> TRUE]

\* C9: once a session is locked, no step changes an enrollment of that
\* session, and no step creates an enrollment in it.
C9_LockedSessionFrozen ==
  [][/\ \A e \in DOMAIN enrollments :
          sessions[enrollments[e].session].is_locked => enrollments'[e] = enrollments[e]
     /\ \A e \in DOMAIN enrollments' \ DOMAIN enrollments :
          ~sessions[enrollments'[e].session].is_locked]_vars

\* C10: once a session is locked, no request creates or changes a result row
\* of that session: the result rows of a locked session are the same before
\* and after every step.
C10_LockedResultsFrozen ==
  [][{r \in results' : sessions[r.session].is_locked}
       = {r \in results : sessions[r.session].is_locked}]_vars

-----------------------------------------------------------------------------
(* Properties of the authorization functions. *)

\* C11: for a teacher, CanEnterMarks answers allowed exactly when the session
\* is not locked and the table holds, at the time of the call, an active
\* TeacherAssignment row for the teacher, the student's class and section,
\* the subject and the session - whatever was created, deactivated, deleted
\* or asked before.
C11_CanEnterMarksReadsStore ==
  [][\A student \in Students, subject \in Subjects, session \in SessionIds :
       CanEnterMarks(TeacherUser("t1"), student, subject, session) =>
         (call'.allowed <=>
            /\ ~sessions[session].is_locked
            /\ TeacherAssignmentExists(assignments, "t1", students[student].class_ref,
                                       students[student].section, subject, session))]_vars

\* C12: the role dispatch of CanEnterMarks: an admin is allowed with no
\* reason for every student, subject and session; a user who is neither admin
\* nor teacher, and a teacher-role user with no teacher profile, are denied;
\* and whenever a decision is returned, it is a denial with a reason or an
\* allowance without one.
C12_RoleDispatch ==
  [][\A user \in MarksUsers, student \in Students, subject \in Subjects,
        session \in SessionIds :
       CanEnterMarks(user, student, subject, session) =>
         /\ user.role = "admin" => (call'.allowed /\ call'.reason = None)
         /\ user.role \notin {"admin", "teacher"} => ~call'.allowed
         /\ (user.role = "teacher" /\ user.teacher_profile = None) => ~call'.allowed
         /\ ~call'.raised => (call'.allowed <=> call'.reason = None)]_vars

\* An admin allowed for a locked session in which nobody is assigned.
C12_Witness ==
  /\ call.fn = "can_enter_marks" /\ call.user = "admin"
  /\ call.allowed /\ call.reason = None
  /\ sessions[call.session].is_locked
  /\ assignments = {}

\* C13: every core result row a teacher's upsert or bulk-upsert request
\* writes is a row for which that teacher passes CanEnterMarks; a request
\* with a row the teacher is not authorized for writes nothing.
C13_TeacherWritesOnlyAuthorized ==
  [][\A items \in CoreResultLists :
       ResultBulkUpsert(TeacherUser("t1"), items) =>
         \A r \in results' \ results :
           validate_marks_entry_permission(cache, assignments, sessions, students,
             TeacherUser("t1"), r.student, r.subject, r.session).allowed]_vars

\* The students of (class, section, session) that are active and whose fees
\* are not cleared, as the tables hold them.
Uncleared(class_ref, section, session) ==
  {st \in Students :
     /\ students[st].class_ref = class_ref /\ students[st].section = section
     /\ students[st].session = session /\ students[st].is_active
     /\ \E f \in fees : f.student = st /\ f.session = session
                         /\ f.status \in {"pending", "partial", "overdue"}}

\* C14: with checkFees, CanGenerateMarksheet for an admin, and for a teacher
\* whom an active ClassTeacher row names for the class, section and session,
\* allows exactly when no active student in scope has uncleared fees; a
\* denial lists exactly the uncleared students, an allowance lists none.
C14_FeeGate ==
  [][\A user \in {AdminUser, TeacherUser("t1")}, session \in {"s1", "s2"} :
       (/\ CanGenerateMarksheet(user, "c1", "a", session, TRUE)
        /\ user.role = "teacher" =>
              ClassTeacherExists(class_teachers, "t1", "c1", "a", session))
       => /\ call'.allowed <=> Uncleared("c1", "a", session) = {}
          /\ call'.pending = Uncleared("c1", "a", session)]_vars

\* C15: CanGenerateMarksheet allows a teacher only if an active ClassTeacher
\* row names that teacher for the class, section and session; a teacher who
\* is not the class teacher is denied with an empty list, whatever the fees
\* and checkFees; a user who is neither admin nor teacher is denied.
C15_ClassTeacherOnly ==
  [][\A user \in SheetUsers, session \in {"s1", "s2"}, check_fees \in BOOLEAN :
       CanGenerateMarksheet(user, "c1", "a", session, check_fees) =>
         /\ (user.role = "teacher" /\ call'.allowed) =>
              /\ user.teacher_profile # None
              /\ ClassTeacherExists(class_teachers, user.teacher_profile, "c1", "a", session)
         /\ (/\ user.role = "teacher"
             /\ \/ user.teacher_profile = None
                \/ ~ClassTeacherExists(class_teachers, user.teacher_profile, "c1", "a", session))
            => (~call'.allowed /\ call'.pending = {})
         /\ user.role \notin {"admin", "teacher"} => ~call'.allowed]_vars

\* C16: at each entry point that returns one student's marksheet, a request
\* without skipFeeCheck for a student whose fees are not cleared for the
\* session fails with the fees-pending error and exposes no data; with the
\* fees cleared, or with skipFeeCheck, it succeeds with a summary.
C16_StudentFeeGate ==
  [][\A user \in EntryUsers \ {AnonymousUser}, st \in Students, marks \in EntryMarks :
       LET cleared == check_student_fees_cleared(fees, st, "s1")
       IN /\ \A skip \in BOOLEAN :
              MarksheetGenerationStudent(user, st, "s1", skip, marks) =>
                IF ~skip /\ ~cleared
                THEN call'.status = "fees_pending" /\ call'.data = <<>>
                ELSE call'.status = "ok" /\ Len(call'.data) = 1
          /\ StudentMarksheet(user, st, "s1", marks) =>
                IF ~cleared
                THEN call'.status = "fees_pending" /\ call'.data = <<>>
                ELSE call'.status = "ok" /\ Len(call'.data) = 1]_vars

\* C17: each entry point that returns the marksheet of a class, section and
\* session returns no student data when CanGenerateMarksheet, evaluated for
\* the requesting user, denies or reports pending fees.
C17_ClassSheetGuarded ==
  [][\A user \in EntryUsers \ {AnonymousUser}, marks \in [Students -> EntryMarks] :
       LET d(check_fees) == validate_marksheet_generation_permission(cache, class_teachers,
                              fees, students, user, "c1", "a", "s1", check_fees)
       IN /\ \A skip \in BOOLEAN :
              (MarksheetGenerationClass(user, "c1", "a", "s1", skip, marks) /\ ~d(~skip).allowed)
                => call'.data = <<>>
          /\ (ClassMarksheet(user, "c1", "a", "s1", marks) /\ ~d(TRUE).allowed)
                => call'.data = <<>>]_vars

\* C18: a request to create, update or delete an enrollment, to promote,
\* bulk-promote, retain or transfer out, sent by a user who is not an admin
\* (a teacher, a student, an unauthenticated user), is refused before any
\* validation and leaves every enrollment and student row as it was.
C18_LifecycleAdminOnly ==
  [][(/\ nops' = nops + 1
      /\ call'.fn = "enrollment_request"
      /\ ~(call'.is_authenticated /\ call'.role = "admin"))
     => /\ resp'.err = "forbidden"
        /\ enrollments' = enrollments
        /\ students' = students]_vars

\* A teacher's promotion was refused while an enrollment an admin had promoted exists.
C18_Witness ==
  /\ call.fn = "enrollment_request" /\ call.role = "teacher"
  /\ resp.op = "promote" /\ resp.err = "forbidden"
  /\ \E id \in DOMAIN enrollments : enrollments[id].status = "promoted"

\* The order of the grades, lowest first.
GradeRank(g) ==
  CASE g = "D" -> 0 [] g = "C" -> 1 [] g = "B" -> 2 [] g = "B+" -> 3
    [] g = "A" -> 4 [] g = "A+" -> 5 [] g = "AA" -> 6

\* C19: every percentage gets exactly one grade: AA from 90, A+ from 75, A
\* from 60, B+ from 45, B from 34, C from 25, D below; 90.0 is AA, 89.99 is
\* A+, 75.0 is A+, 60.0 is A, 45.0 is B+, 34.0 is B, 25.0 is C, 24.99 is D;
\* and the grade of a percentage is never below the grade of the percentage
\* one hundredth lower (over all hundredths, the mapping is monotone).
C19_GradeBands ==
  call.fn = "overall_grade" =>
    LET p == call.percentage
        g == call.overall_grade
    IN /\ g \in {"AA", "A+", "A", "B+", "B", "C", "D"}
       /\ g = "AA" <=> p >= 9000
       /\ g = "A+" <=> (p >= 7500 /\ p < 9000)
       /\ g = "A" <=> (p >= 6000 /\ p < 7500)
       /\ g = "B+" <=> (p >= 4500 /\ p < 6000)
       /\ g = "B" <=> (p >= 3400 /\ p < 4500)
       /\ g = "C" <=> (p >= 2500 /\ p < 3400)
       /\ g = "D" <=> p < 2500
       /\ p = 9000 => g = "AA"
       /\ p = 8999 => g = "A+"
       /\ p = 7500 => g = "A+"
       /\ p = 6000 => g = "A"
       /\ p = 4500 => g = "B+"
       /\ p = 3400 => g = "B"
       /\ p = 2500 => g = "C"
       /\ p = 2499 => g = "D"
       /\ p > 0 => GradeRank(overall_grade(Hundredths(p - 1))) <= GradeRank(g)

\* 90.0 has been graded AA.
C19_Witness ==
  call.fn = "overall_grade" /\ call.percentage = 9000 /\ call.overall_grade = "AA"

\* C20: the class marksheet holds every roster student exactly once, in
\* order of non-increasing percentage, with positions 1, 2, ..., n; students
\* with equal percentage keep their roster (roll_no) order.
C20_Ranking ==
  call.fn = "class_marksheet" =>
    LET out == call.students
        n == Len(call.roster)
    IN /\ Len(out) = n
       /\ \A i \in 1..n : Cardinality({k \in 1..n : out[k].student = call.roster[i]}) = 1
       /\ \A k \in 1..n : out[k].position = k
       /\ \A k, l \in 1..n : k < l => out[k].percentage >= out[l].percentage
       /\ \A k, l \in 1..n :
            (k < l /\ out[k].percentage = out[l].percentage) =>
              out[k].student < out[l].student

\* Three students were ranked; two share a percentage, one has no results,
\* and the first of the roster is not first of the marksheet.
C20_Witness ==
  /\ call.fn = "class_marksheet"
  /\ Len(call.students) = 3
  /\ call.students[1].student # 1
  /\ \E k \in 1..2 : call.students[k].percentage = call.students[k + 1].percentage
  /\ \E i \in 1..3 : call.marks[i].full = 0

-----------------------------------------------------------------------------
(* Properties of the enrollment records. *)

\* C21: no two enrollments hold the same student and session, whatever the
\* interleaving of admissions, promotions, bulk promotions and retentions;
\* and a request that ends with the conflict error has inserted nothing and
\* changed no enrollment.
C21_OnePerStudentSession ==
  [][/\ \A i, j \in DOMAIN enrollments' :
          (/\ enrollments'[i].student = enrollments'[j].student
           /\ enrollments'[i].session = enrollments'[j].session) => i = j
     /\ (\/ nops' = nops + 1 /\ reqs' = reqs /\ resp'.err = "conflict"
         \/ \E r \in DOMAIN reqs :
              reqs[r].pc # "done" /\ reqs'[r].pc = "done" /\ reqs'[r].err = "conflict")
        => enrollments' = enrollments]_vars

\* A request ended with the conflict error while the student holds an
\* enrollment in each of two sessions.
C21_Witness ==
  /\ resp.err = "conflict"
  /\ \E i, j \in DOMAIN enrollments :
       i # j /\ enrollments[i].student = enrollments[j].student

\* What C22 says a successful retain leaves, for the request `data`.
RetainPost(data) ==
  LET e == data.enrollment_id
      n == resp'.new[1]
  IN /\ Len(resp'.new) = 1
     /\ n \notin DOMAIN enrollments
     /\ DOMAIN enrollments' = DOMAIN enrollments \cup {n}
     /\ enrollments'[n].status = "active"
     /\ enrollments'[n].student = enrollments[e].student
     /\ enrollments'[n].session = data.new_session_id
     /\ enrollments'[n].class_ref = enrollments[e].class_ref
     /\ enrollments'[n].section = enrollments[e].section
     /\ enrollments'[n].roll_no = IF data.new_roll_no = "" THEN enrollments[e].roll_no
                                  ELSE data.new_roll_no
     /\ enrollments'[e].status = "retained"
     /\ enrollments'[e].promoted_to = enrollments[e].promoted_to
     /\ \A i \in DOMAIN enrollments \ {e} : enrollments'[i] = enrollments[i]

\* C22: a successful retain creates exactly one new active enrollment of the
\* same student in the new session, with the class and section of the source
\* and the requested roll number (the source's when none is given), marks
\* the source retained, and leaves the source's promoted_to and every other
\* enrollment as they were.
C22_RetainEffect ==
  [][\A data \in RetentionData(NamedIds(enrollments, nextId)) :
       (Retain(data) /\ resp'.err = "ok") => RetainPost(data)]_vars

\* A retain without roll number succeeded on an enrollment that had been
\* promoted: the source is retained and still points to its successor, and
\* the new row carries the source's roll number.
C22_Witness ==
  /\ resp.op = "retain" /\ resp.err = "ok"
  /\ \E e \in DOMAIN enrollments :
       /\ enrollments[e].status = "retained"
       /\ enrollments[e].promoted_to # NoId
       /\ enrollments[resp.new[1]].student = enrollments[e].student
       /\ enrollments[resp.new[1]].roll_no = enrollments[e].roll_no
       /\ enrollments[resp.new[1]].roll_no # enrollments[enrollments[e].promoted_to].roll_no

-----------------------------------------------------------------------------
(* Properties of the assignment tables. *)

\* C23: creating a subject-teacher or class-teacher assignment whose natural
\* key (class, section, subject, session; class, section, session) already
\* has a row replaces that row: after the create there is exactly one row
\* for the key, with the teacher and is_active of the request.
C23_AssignmentUpsert ==
  [][/\ \A key \in [teacher : Teachers, class_ref : {"c1"}, section : {"a"},
                     subject : Subjects, session : {"s1", "s2"}], is_active \in BOOLEAN :
          AssignmentCreate(key, is_active) =>
            {a \in assignments' : /\ a.class_ref = key.class_ref /\ a.section = key.section
                                  /\ a.subject = key.subject /\ a.session = key.session}
              = {AssignmentRow(key, is_active)}
     /\ \A key \in ClassTeacherKeys, t \in Teachers, is_active \in BOOLEAN :
          ClassTeacherCreate(key, t, is_active) =>
            ClassTeachersAt(class_teachers', key) = {ClassTeacherRow(key, t, is_active)}]_vars

\* C24: a write to the TeacherAssignment or ClassTeacher row of a key
\* (create, update, delete) leaves no cached lookup entry for that key that
\* differs from the table: the
\* lookups answer from the entry whenever there is one, so this is what
\* makes the first lookup after the write return the table's answer.
C24_WriteInvalidates ==
  [][/\ \A k \in DOMAIN cache' :
          (/\ k[1] = "teacher_assignment"
           /\ AssignmentsAt(assignments', [teacher |-> k[2], class_ref |-> k[3],
                 section |-> k[4], subject |-> k[5], session |-> k[6]])
              # AssignmentsAt(assignments, [teacher |-> k[2], class_ref |-> k[3],
                  section |-> k[4], subject |-> k[5], session |-> k[6]]))
          => cache'[k] = TeacherAssignmentExists(assignments', k[2], k[3], k[4], k[5], k[6])
     /\ \A k \in DOMAIN cache' :
          (/\ k[1] = "class_teacher"
           /\ ClassTeachersAt(class_teachers', [class_ref |-> k[3], section |-> k[4],
                                                session |-> k[5]])
              # ClassTeachersAt(class_teachers, [class_ref |-> k[3], section |-> k[4],
                                                session |-> k[5]]))
          => cache'[k] = ClassTeacherExists(class_teachers', k[2], k[3], k[4], k[5])]_vars

-----------------------------------------------------------------------------
(* Properties of the summary. *)

-----------------------------------------------------------------------------
(* Properties of the stored enrollments. *)

\* C26: the section of every stored enrollment belongs to the enrollment's
\* class: an enrollment create, an enrollment update or a promotion that
\* names a section of another class writes nothing.
C26_SectionOfClass ==
  \A i \in DOMAIN enrollments :
    section_class_ref[enrollments[i].section] = enrollments[i].class_ref

\* C27: an enrollment whose status is no longer 'active' is history: no
\* request (update, delete, promote, retain, transfer) removes the row or
\* changes its student, session, class, section, roll number or promoted_to;
\* only status and remarks may change.
C27_HistoryFrozen ==
  [][\A i \in DOMAIN enrollments :
       enrollments[i].status # "active" =>
         /\ i \in DOMAIN enrollments'
         /\ enrollments'[i].student = enrollments[i].student
         /\ enrollments'[i].session = enrollments[i].session
         /\ enrollments'[i].class_ref = enrollments[i].class_ref
         /\ enrollments'[i].section = enrollments[i].section
         /\ enrollments'[i].roll_no = enrollments[i].roll_no
         /\ enrollments'[i].promoted_to = enrollments[i].promoted_to]_vars

\* The enrollments reached from enrollment i by following promoted_to, at
\* most n times.
RECURSIVE Successors(_, _, _)
Successors(E, i, n) ==
  IF n = 0 \/ E[i].promoted_to \notin DOMAIN E THEN {}
  ELSE {E[i].promoted_to} \cup Successors(E, E[i].promoted_to, n - 1)

\* C28: the promoted_to references form forward-only chains: no enrollment
\* is reached from itself by following promoted_to, every promoted_to names
\* a stored enrollment of the same student, and no enrollment is the
\* promoted_to of two enrollments.
C28_PromotionChains ==
  /\ \A i \in DOMAIN enrollments :
       i \notin Successors(enrollments, i, Cardinality(DOMAIN enrollments))
  /\ \A i \in DOMAIN enrollments :
       enrollments[i].promoted_to # NoId =>
         /\ enrollments[i].promoted_to \in DOMAIN enrollments
         /\ enrollments[enrollments[i].promoted_to].student = enrollments[i].student
  /\ \A i, j \in DOMAIN enrollments :
       (i # j /\ enrollments[i].promoted_to # NoId)
         => enrollments[i].promoted_to # enrollments[j].promoted_to

\* A chain of two promotions: an enrollment was promoted, and its successor
\* was promoted in turn.
C28_Witness ==
  \E i \in DOMAIN enrollments :
    /\ enrollments[i].promoted_to \in DOMAIN enrollments
    /\ enrollments[enrollments[i].promoted_to].promoted_to \in DOMAIN enrollments
    /\ Cardinality(Successors(enrollments, i, Cardinality(DOMAIN enrollments))) = 2

-----------------------------------------------------------------------------
(* Properties of the login endpoint. *)

\* The key of the login attempt made in this step, and what had been
\* observed of it before.
AttemptSeen == resp.log[call'.key]

-----------------------------------------------------------------------------
(* Properties of the student rows. *)

\* C30: the placement stored on the student row is the one of the student's
\* active enrollment: for every active enrollment, the class, section,
\* session and roll number of its student's row are the enrollment's.
C30_StudentFollowsActive ==
  \A i \in DOMAIN enrollments :
    enrollments[i].status = "active" =>
      LET stu == students[enrollments[i].student]
      IN /\ stu.class_ref = enrollments[i].class_ref
         /\ stu.section = enrollments[i].section
         /\ stu.session = enrollments[i].session
         /\ stu.roll_no = enrollments[i].roll_no

====
